---------------------------- MODULE Spec2Model ----------------------------
(***************************************************************************)
(* Model of the clustering engine of preparation_1.py: the direction       *)
(* splitter, the hierarchical path (elbow selection over an agglomerative  *)
(* merge tree), the density path (core distances, mutual reachability,     *)
(* Prim's MST, condensed tree over UnionFind, stability extraction) and    *)
(* the orchestrator in main().                                             *)
(*                                                                         *)
(* Conventions.  Python lists are TLA+ sequences; numpy arrays are         *)
(* functions over 0..n-1 so that the source's 0-based indices are kept.    *)
(* A float is an integer in fixed point: a distance is the integer square  *)
(* root of DScale^2 times the squared distance, a lambda is LScale divided *)
(* by that distance.  Both roundings are monotone, and for the coordinate  *)
(* ranges used here they keep distinct values distinct, so every           *)
(* comparison the code makes has the outcome it has on the reals.          *)
(* +inf, -inf and nan are the sentinels PInf, NInf and NaN with the        *)
(* IEEE-754 rules the code relies on.                                      *)
(***************************************************************************)
EXTENDS Integers, Sequences, FiniteSets, TLC

VARIABLES
    data,            \* main: the loaded point sequence (list of <<x, y>>)
    args,            \* main: the parsed command line (method, max_k, linkage, ...)
    pc,              \* position in main / in the direct call
    pos_indices,     \* main: split_by_direction(data)[0]
    neg_indices,     \* main: split_by_direction(data)[1]
    pos_clusters,    \* main: labels of the positive sub-group
    pos_k,           \* main: cluster count reported for the positive sub-group
    neg_clusters,    \* main: labels of the negative sub-group
    neg_k,           \* main: cluster count reported for the negative sub-group
    all_clusters,    \* main: the full-length output vector
    cluster_offset,  \* main: offset added to the negative labels
    total_clusters,  \* main: len(set(all_clusters))
    ret,             \* direct call: the pair (labels, count) a clusterer returned
    frames,          \* the local variables of the two clusterer calls of main,
                     \* when their statements are run interleaved
    density,         \* direct calls of the density path's functions on a weight
                     \* matrix: the matrix and what each call returned
    union_find       \* a UnionFind object under direct calls of its methods: the
                     \* object, the last call with what it returned, and the
                     \* object as it was before that call

vars == << data, args, pc, pos_indices, neg_indices, pos_clusters, pos_k,
           neg_clusters, neg_k, all_clusters, cluster_offset, total_clusters, ret,
           frames, density, union_find >>

-----------------------------------------------------------------------------
(* Bounds of the model *)

MaxN == 5
MaxCoord == 1
MaxK == 4
MaxMinClusterSize == 3
MaxMinSamples == 2

-----------------------------------------------------------------------------
(* Floats *)

DScale == 100
LScale == 100000000
PInf == 2000000000
NInf == -2000000000
NaN == 2100000000

\* a - b
FSub(a, b) ==
    IF a = NaN \/ b = NaN THEN NaN
    ELSE IF a = PInf THEN (IF b = PInf THEN NaN ELSE PInf)
    ELSE IF a = NInf THEN (IF b = NInf THEN NaN ELSE NInf)
    ELSE IF b = PInf THEN NInf
    ELSE IF b = NInf THEN PInf
    ELSE a - b

\* a + b
FAdd(a, b) ==
    IF a = NaN \/ b = NaN THEN NaN
    ELSE IF a = PInf THEN (IF b = NInf THEN NaN ELSE PInf)
    ELSE IF a = NInf THEN (IF b = PInf THEN NaN ELSE NInf)
    ELSE IF b = PInf \/ b = NInf THEN b
    ELSE a + b

\* a * k for an integer k >= 0 (a cluster size)
FMulInt(a, k) ==
    IF a = NaN THEN NaN
    ELSE IF a = PInf \/ a = NInf THEN (IF k = 0 THEN NaN ELSE a)
    ELSE a * k

\* a > b (false when either side is nan)
FGt(a, b) ==
    IF a = NaN \/ b = NaN THEN FALSE
    ELSE IF a = PInf THEN b # PInf
    ELSE IF a = NInf THEN FALSE
    ELSE IF b = PInf THEN FALSE
    ELSE IF b = NInf THEN TRUE
    ELSE a > b

FLt(a, b) == FGt(b, a)

\* Python's max(a, b): b when b > a, else a
FMax2(a, b) == IF FGt(b, a) THEN b ELSE a

Sq(a) == a * a

\* the integer square root of v < 46340^2: the r with r*r <= v < (r+1)*(r+1),
\* found first to a multiple of 216 and then exactly
ISqrt(v) ==
    LET hi == CHOOSE h \in 0..214 :
                  Sq(h * 216) <= v /\ (h = 214 \/ Sq((h + 1) * 216) > v)
    IN  CHOOSE r \in (hi * 216)..(hi * 216 + 215) : Sq(r) <= v /\ Sq(r + 1) > v

\* squared Euclidean distance of two points (exact)
Dist2(p, q) == Sq(p[1] - q[1]) + Sq(p[2] - q[2])

\* Euclidean distance in units of 1/DScale
EuclideanDist(p, q) == ISqrt(DScale * DScale * Dist2(p, q))

Range0(n) == 0 .. (n - 1)

\* an array holds its entries: the function f with every entry computed once
Array(f) == f @@ << >>

\* statements run in order: first is computed, then rest
Then(first, rest) == IF first = first THEN rest ELSE rest

Min2(a, b) == IF a <= b THEN a ELSE b
Max2(a, b) == IF a >= b THEN a ELSE b

\* the list [0, 1, ..., n-1]
Arange(n) == [i \in 1..n |-> i - 1]

-----------------------------------------------------------------------------
(* split_by_direction *)

\* split_by_direction with the test "diff > 0": a tie y = x goes to the
\* negative list
split_by_direction_strict(d) ==
    LET IsPos(i) == d[i + 1][2] - d[i + 1][1] > 0
        IsNeg(i) == ~IsPos(i)
    IN  << SelectSeq(Arange(Len(d)), IsPos), SelectSeq(Arange(Len(d)), IsNeg) >>

split_by_direction(d) ==
    LET IsPos(i) == d[i + 1][2] - d[i + 1][1] >= 0
        IsNeg(i) == ~IsPos(i)
    IN  << SelectSeq(Arange(Len(d)), IsPos), SelectSeq(Arange(Len(d)), IsNeg) >>

\* data[indices]: the sub-array of the rows at the listed indices
Take(d, indices) == Array([i \in 1..Len(indices) |-> d[indices[i] + 1]])

-----------------------------------------------------------------------------
(* Python containers *)

\* d[k] = v on a dict
DictSet(d, k, v) == Array([x \in (DOMAIN d) \cup {k} |-> IF x = k THEN v ELSE d[x]])

\* d.get(k, default)
DictGet(d, k, default) == IF k \in DOMAIN d THEN d[k] ELSE default

EmptyDict == [x \in {} |-> 0]

SetMax(S) == CHOOSE m \in S : \A x \in S : x <= m

\* sorted(S) for a set of integers
SortedList(S) ==
    Array([k \in 1..Cardinality(S) |->
              CHOOSE x \in S : Cardinality({y \in S : y < x}) = k - 1])

\* the position (0-based) of x in a sequence without repetitions
IndexOf(seq, x) == (CHOOSE i \in 1..Len(seq) : seq[i] = x) - 1

-----------------------------------------------------------------------------
(* Density path: distance matrix, core distances, mutual reachability *)

\* squareform(pdist(data, metric='euclidean'))
DistanceMatrix(d) ==
    Array([i \in Range0(Len(d)) |->
        Array([j \in Range0(Len(d)) |-> EuclideanDist(d[i + 1], d[j + 1])])])

\* np.sort(row)[k]: the k-th smallest entry (0-based) of a row
SortedAt(row, k) ==
    CHOOSE v \in {row[j] : j \in DOMAIN row} :
        /\ Cardinality({j \in DOMAIN row : row[j] < v}) <= k
        /\ Cardinality({j \in DOMAIN row : row[j] <= v}) > k

compute_core_distances(distance_matrix, min_samples) ==
    LET n == Cardinality(DOMAIN distance_matrix)
    IN  Array([i \in Range0(n) |->
            IF min_samples < n
            THEN SortedAt(distance_matrix[i], min_samples)
            ELSE SortedAt(distance_matrix[i], n - 1)])

compute_mutual_reachability_distance(distance_matrix, core_distances) ==
    LET n == Cardinality(DOMAIN distance_matrix)
    IN  Array([i \in Range0(n) |-> Array([j \in Range0(n) |->
            Max2(Max2(core_distances[i], core_distances[j]), distance_matrix[i][j])])])

-----------------------------------------------------------------------------
(* Prim's minimum spanning tree *)

\* the inner selection loop: u moves to i when i is outside the tree and
\* (u == -1 or min_dist[i] < min_dist[u]); it ends on the first vertex
\* outside the tree that no other such vertex is strictly below
\* the pick of the outer loop taking the first vertex outside the tree instead
\* of the nearest one
PrimPickFirst(n, in_tree, min_dist) ==
    CHOOSE u \in Range0(n) : ~in_tree[u] /\ \A i \in 0..(u - 1) : in_tree[i]

\* u = the vertex outside the tree with the least min_dist, the first one on ties
PrimPick(n, in_tree, min_dist) ==
    LET out == {i \in Range0(n) : ~in_tree[i]}
    IN  CHOOSE u \in out :
            \A i \in out : /\ i < u => FLt(min_dist[u], min_dist[i])
                           /\ i > u => ~FLt(min_dist[i], min_dist[u])

\* one round of the outer loop without the test parent[u] != -1
PrimRoundRootEdge(M, n, st) ==
    LET u == PrimPick(n, st.in_tree, st.min_dist)
        in_tree2 == [st.in_tree EXCEPT ![u] = TRUE]
        relax(v) == ~in_tree2[v] /\ FLt(M[u][v], st.min_dist[v])
    IN  [round |-> st.round + 1,
         in_tree |-> in_tree2,
         edges |-> Append(st.edges,
                          [u |-> st.parent[u], v |-> u, w |-> st.min_dist[u]]),
         min_dist |-> Array([v \in Range0(n) |->
                                IF relax(v) THEN M[u][v] ELSE st.min_dist[v]]),
         parent |-> Array([v \in Range0(n) |-> IF relax(v) THEN u ELSE st.parent[v]])]

\* one round of the outer loop
PrimRound(M, n, st) ==
    LET u == PrimPick(n, st.in_tree, st.min_dist)
        in_tree2 == [st.in_tree EXCEPT ![u] = TRUE]
        relax(v) == ~in_tree2[v] /\ FLt(M[u][v], st.min_dist[v])
    IN  [round |-> st.round + 1,
         in_tree |-> in_tree2,
         edges |-> IF st.parent[u] # -1
                   THEN Append(st.edges,
                               [u |-> st.parent[u], v |-> u, w |-> st.min_dist[u]])
                   ELSE st.edges,
         min_dist |-> Array([v \in Range0(n) |->
                                IF relax(v) THEN M[u][v] ELSE st.min_dist[v]]),
         parent |-> Array([v \in Range0(n) |-> IF relax(v) THEN u ELSE st.parent[v]])]

RECURSIVE PrimLoop(_, _, _)
PrimLoop(M, n, st) ==
    IF st.round >= n THEN st.edges ELSE PrimLoop(M, n, PrimRound(M, n, st))

minimum_spanning_tree_prim(distance_matrix) ==
    LET n == Cardinality(DOMAIN distance_matrix)
    IN  PrimLoop(distance_matrix, n,
                 [round |-> 0,
                  in_tree |-> Array([i \in Range0(n) |-> FALSE]),
                  edges |-> << >>,
                  min_dist |-> Array([i \in Range0(n) |-> IF i = 0 THEN 0 ELSE PInf]),
                  parent |-> Array([i \in Range0(n) |-> -1])])

-----------------------------------------------------------------------------
(* UnionFind *)

UFInit(n) ==
    [parent |-> Array([i \in Range0(n) |-> i]),
     rank   |-> Array([i \in Range0(n) |-> 0]),
     size   |-> Array([i \in Range0(n) |-> 1])]

RECURSIVE UFFind(_, _)
\* find with path compression: the root, and the structure after the call
UFFind(uf, x) ==
    IF uf.parent[x] # x
    THEN LET r == UFFind(uf, uf.parent[x])
         IN  [root |-> r.root, uf |-> [r.uf EXCEPT !.parent[x] = r.root]]
    ELSE [root |-> x, uf |-> uf]

\* union without the statement self.size[px] += self.size[py]
UFUnionNoSize(uf, x, y) ==
    LET link(u, px, py) ==
            [merged |-> TRUE,
             uf |-> [u EXCEPT !.parent[py] = px,
                              !.rank[px] = IF u.rank[px] = u.rank[py]
                                           THEN u.rank[px] + 1 ELSE u.rank[px]]]
        roots(u, px, py) ==
            IF px = py THEN [merged |-> FALSE, uf |-> u]
            ELSE IF u.rank[px] < u.rank[py] THEN link(u, py, px)
            ELSE link(u, px, py)
        afterX(px, fy) == roots(fy.uf, px, fy.root)
        findY(fx) == afterX(fx.root, UFFind(fx.uf, y))
    IN  findY(UFFind(uf, x))

\* union putting the element y, not its root py, under the other root
UFUnionElement(uf, x, y) ==
    LET link(u, px, py) ==
            [merged |-> TRUE,
             uf |-> [u EXCEPT !.parent[y] = px,
                              !.size[px] = u.size[px] + u.size[py],
                              !.rank[px] = IF u.rank[px] = u.rank[py]
                                           THEN u.rank[px] + 1 ELSE u.rank[px]]]
        roots(u, px, py) ==
            IF px = py THEN [merged |-> FALSE, uf |-> u]
            ELSE IF u.rank[px] < u.rank[py] THEN link(u, py, px)
            ELSE link(u, px, py)
        afterX(px, fy) == roots(fy.uf, px, fy.root)
        findY(fx) == afterX(fx.root, UFFind(fx.uf, y))
    IN  findY(UFFind(uf, x))

\* union without the rank increment on equal ranks
UFUnionNoRank(uf, x, y) ==
    LET link(u, px, py) ==
            [merged |-> TRUE,
             uf |-> [u EXCEPT !.parent[py] = px,
                              !.size[px] = u.size[px] + u.size[py]]]
        roots(u, px, py) ==
            IF px = py THEN [merged |-> FALSE, uf |-> u]
            ELSE IF u.rank[px] < u.rank[py] THEN link(u, py, px)
            ELSE link(u, px, py)
        afterX(px, fy) == roots(fy.uf, px, fy.root)
        findY(fx) == afterX(fx.root, UFFind(fx.uf, y))
    IN  findY(UFFind(uf, x))

\* union by rank: find(x) and find(y) one after the other, each compressing
\* its path; equal roots return False, otherwise the root of lower rank (py
\* when the ranks are equal) goes under the other
UFUnion(uf, x, y) ==
    LET link(u, px, py) ==
            [merged |-> TRUE,
             uf |-> [u EXCEPT !.parent[py] = px,
                              !.size[px] = u.size[px] + u.size[py],
                              !.rank[px] = IF u.rank[px] = u.rank[py]
                                           THEN u.rank[px] + 1 ELSE u.rank[px]]]
        roots(u, px, py) ==
            IF px = py THEN [merged |-> FALSE, uf |-> u]
            ELSE IF u.rank[px] < u.rank[py] THEN link(u, py, px)
            ELSE link(u, px, py)
        afterX(px, fy) == roots(fy.uf, px, fy.root)
        findY(fx) == afterX(fx.root, UFFind(fx.uf, y))
    IN  findY(UFFind(uf, x))

UFGetSize(uf, x) ==
    LET sized(f) == [size |-> f.uf.size[f.root], uf |-> f.uf]
    IN  sized(UFFind(uf, x))

-----------------------------------------------------------------------------
(* Condensed tree *)

\* the edges left in the order minimum_spanning_tree_prim returned them
SortEdgesUnsorted(edges) == edges

\* sorted(mst_edges, key=lambda x: x[2]): ascending weight, stable (an edge
\* goes after every edge of smaller weight and every earlier edge of equal
\* weight)
SortEdges(edges) ==
    LET before(i, j) == \/ FLt(edges[i].w, edges[j].w)
                        \/ (~FLt(edges[j].w, edges[i].w) /\ i < j)
        rank(j) == Cardinality({i \in DOMAIN edges : before(i, j)})
    IN  Array([k \in DOMAIN edges |-> edges[CHOOSE j \in DOMAIN edges : rank(j) = k - 1]])

\* the lambda of an edge with a zero distance recorded as 0 instead of inf
LambdaOfZero(dist) == IF dist > 0 THEN LScale \div dist ELSE 0

\* the lambda of an edge taken to be its distance
LambdaOfDistance(dist) == dist

\* lambda_val = 1.0 / dist if dist > 0 else np.inf
LambdaOf(dist) == IF dist > 0 THEN LScale \div dist ELSE PInf

\* the body of the loop over the sorted edges without the statement
\* cluster_labels[new_root] = new_cluster
CondenseEdgeStale(st, e) ==
    LET lambda_val == LambdaOf(e.w)
        new_cluster == st.next_cluster_id
        record(cu, cv, size_u, size_v, fr) ==
            [i |-> st.i + 1,
             uf |-> fr.uf,
             cluster_labels |-> st.cluster_labels,
             next_cluster_id |-> new_cluster + 1,
             tree |-> st.tree \o
                 << [parent |-> new_cluster, child |-> st.cluster_labels[cu],
                     child_size |-> size_u, lambda_val |-> lambda_val],
                    [parent |-> new_cluster, child |-> st.cluster_labels[cv],
                     child_size |-> size_v, lambda_val |-> lambda_val] >>,
             cluster_sizes |-> DictSet(st.cluster_sizes, new_cluster, size_u + size_v),
             cluster_birth |-> DictSet(st.cluster_birth, new_cluster, lambda_val)]
        union(cu, cv, size_u, sv) ==
            record(cu, cv, size_u, sv.size, UFFind(UFUnion(sv.uf, e.u, e.v).uf, e.u))
        sizeV(cu, cv, su) == union(cu, cv, su.size, UFGetSize(su.uf, e.v))
        differ(cu, fv) ==
            IF cu # fv.root THEN sizeV(cu, fv.root, UFGetSize(fv.uf, e.u))
            ELSE [st EXCEPT !.i = st.i + 1, !.uf = fv.uf]
        findV(fu) == differ(fu.root, UFFind(fu.uf, e.v))
    IN  findV(UFFind(st.uf, e.u))

\* the body of the loop over the sorted edges, statement by statement: each
\* step below takes what the statements before it computed
CondenseEdge(st, e) ==
    LET lambda_val == LambdaOf(e.w)
        new_cluster == st.next_cluster_id
        \* cluster_labels[new_root] = new_cluster, with new_root = uf.find(u)
        relabel(cu, cv, size_u, size_v, fr) ==
            [i |-> st.i + 1,
             uf |-> fr.uf,
             cluster_labels |-> [st.cluster_labels EXCEPT ![fr.root] = new_cluster],
             next_cluster_id |-> new_cluster + 1,
             tree |-> st.tree \o
                 << [parent |-> new_cluster, child |-> st.cluster_labels[cu],
                     child_size |-> size_u, lambda_val |-> lambda_val],
                    [parent |-> new_cluster, child |-> st.cluster_labels[cv],
                     child_size |-> size_v, lambda_val |-> lambda_val] >>,
             cluster_sizes |-> DictSet(st.cluster_sizes, new_cluster, size_u + size_v),
             cluster_birth |-> DictSet(st.cluster_birth, new_cluster, lambda_val)]
        \* uf.union(u, v)
        union(cu, cv, size_u, sv) ==
            relabel(cu, cv, size_u, sv.size, UFFind(UFUnion(sv.uf, e.u, e.v).uf, e.u))
        \* size_v = uf.get_size(v)
        sizeV(cu, cv, su) == union(cu, cv, su.size, UFGetSize(su.uf, e.v))
        \* if cu != cv: size_u = uf.get_size(u)
        differ(cu, fv) ==
            IF cu # fv.root THEN sizeV(cu, fv.root, UFGetSize(fv.uf, e.u))
            ELSE [st EXCEPT !.i = st.i + 1, !.uf = fv.uf]
        \* cv = uf.find(v)
        findV(fu) == differ(fu.root, UFFind(fu.uf, e.v))
    \* cu = uf.find(u)
    IN  findV(UFFind(st.uf, e.u))

RECURSIVE CondenseLoop(_, _)
\* st.i is the position of the loop in the sorted edges
CondenseLoop(st, edges) ==
    IF st.i > Len(edges) THEN st
    ELSE CondenseLoop(CondenseEdge(st, edges[st.i]), edges)

\* returns tree, cluster_sizes, cluster_birth, n_clusters (min_cluster_size is unused)
build_condensed_tree(mst_edges, n_points, min_cluster_size) ==
    LET st == CondenseLoop(
                [i |-> 1,
                 uf |-> UFInit(n_points),
                 cluster_labels |-> Array([i \in Range0(n_points) |-> i]),
                 next_cluster_id |-> n_points,
                 tree |-> << >>,
                 cluster_sizes |-> Array([i \in Range0(n_points) |-> 1]),
                 cluster_birth |-> Array([i \in Range0(n_points) |-> 0])],
                SortEdges(mst_edges))
    IN  [tree |-> st.tree,
         cluster_sizes |-> st.cluster_sizes,
         cluster_birth |-> st.cluster_birth,
         n_clusters |-> st.next_cluster_id - n_points]

-----------------------------------------------------------------------------
(* Stability-based extraction *)

\* the body of the first loop of extract_clusters_eom, for tree entry e
TreeEntry(acc, e) ==
    LET kids == DictGet(acc.cluster_children, e.parent, << >>)
    IN  [i |-> acc.i + 1,
         all_clusters |-> acc.all_clusters \cup {e.parent, e.child},
         cluster_children |->
            DictSet(acc.cluster_children, e.parent, Append(kids, e.child)),
         cluster_lambda_max |->
            IF e.child \notin DOMAIN acc.cluster_lambda_max
            THEN DictSet(acc.cluster_lambda_max, e.child, e.lambda_val)
            ELSE DictSet(acc.cluster_lambda_max, e.child,
                         FMax2(acc.cluster_lambda_max[e.child], e.lambda_val))]

RECURSIVE TreeScan(_, _)
\* the first loop of extract_clusters_eom: all_clusters, cluster_children and
\* cluster_lambda_max built entry by entry; acc.i is the position in the tree
TreeScan(tree, acc) ==
    IF acc.i > Len(tree) THEN acc ELSE TreeScan(tree, TreeEntry(acc, tree[acc.i]))

TreeIndex(tree) ==
    TreeScan(tree, [i |-> 1,
                    all_clusters |-> {},
                    cluster_children |-> EmptyDict,
                    cluster_lambda_max |-> EmptyDict])

\* cluster_stability[cluster] with the difference taken as birth - death
StabilityOfFlipped(cluster, n_points, cluster_sizes, cluster_birth, cluster_lambda_max) ==
    IF cluster < n_points THEN 0
    ELSE LET birth == DictGet(cluster_birth, cluster, 0)
             death == DictGet(cluster_lambda_max, cluster, birth)
             size == DictGet(cluster_sizes, cluster, 0)
         IN  FMulInt(FSub(birth, death), size)

\* cluster_stability[cluster] of the second loop
StabilityOf(cluster, n_points, cluster_sizes, cluster_birth, cluster_lambda_max) ==
    IF cluster < n_points THEN 0
    ELSE LET birth == DictGet(cluster_birth, cluster, 0)
             death == DictGet(cluster_lambda_max, cluster, birth)
             size == DictGet(cluster_sizes, cluster, 0)
         IN  FMulInt(FSub(death, birth), size)

ClusterStability(all, n_points, cluster_sizes, cluster_birth, cluster_lambda_max) ==
    Array([c \in all |->
        StabilityOf(c, n_points, cluster_sizes, cluster_birth, cluster_lambda_max)])

RECURSIVE SumChildren(_, _, _, _)
\* sum(select_clusters(c) for c in children), left to right, starting from 0;
\* returned holds what the call on each child returned
SumChildren(returned, children, i, acc) ==
    IF i > Len(children) THEN acc
    ELSE SumChildren(returned, children, i + 1, FAdd(acc, returned[children[i]]))

\* select_clusters with the test own_stability >= children_stability
select_clusters_ties(ctx, cluster, st) ==
    LET children == DictGet(ctx.cluster_children, cluster, << >>)
        children_stability == SumChildren(st.ret, children, 1, 0)
        own_stability == DictGet(ctx.cluster_stability, cluster, 0)
        discarded == st.selected \ {children[i] : i \in 1..Len(children)}
        keep == FGt(own_stability, children_stability)
                    \/ own_stability = children_stability
    IN  IF children = << >>
        THEN [i |-> st.i + 1,
              ret |-> DictSet(st.ret, cluster, DictGet(ctx.cluster_stability, cluster, 0)),
              selected |-> st.selected]
        ELSE [i |-> st.i + 1,
              ret |-> DictSet(st.ret, cluster,
                              IF keep THEN own_stability ELSE children_stability),
              selected |->
                  IF ~keep THEN st.selected
                  ELSE IF DictGet(ctx.cluster_sizes, cluster, 0) >= ctx.min_cluster_size
                       THEN discarded \cup {cluster}
                       ELSE discarded]

\* the nested function select_clusters for one cluster, once the calls on its
\* children have returned: st.ret holds what each finished call returned and
\* st.selected is selected_clusters
select_clusters(ctx, cluster, st) ==
    LET children == DictGet(ctx.cluster_children, cluster, << >>)
        children_stability == SumChildren(st.ret, children, 1, 0)
        own_stability == DictGet(ctx.cluster_stability, cluster, 0)
        discarded == st.selected \ {children[i] : i \in 1..Len(children)}
        keep == FGt(own_stability, children_stability)
    IN  IF children = << >>
        THEN [i |-> st.i + 1,
              ret |-> DictSet(st.ret, cluster, DictGet(ctx.cluster_stability, cluster, 0)),
              selected |-> st.selected]
        ELSE [i |-> st.i + 1,
              ret |-> DictSet(st.ret, cluster,
                              IF keep THEN own_stability ELSE children_stability),
              selected |->
                  IF ~keep THEN st.selected
                  ELSE IF DictGet(ctx.cluster_sizes, cluster, 0) >= ctx.min_cluster_size
                       THEN discarded \cup {cluster}
                       ELSE discarded]

RECURSIVE SelectLoop(_, _, _)
\* select_clusters(root_cluster): the recursion finishes a cluster after its
\* children, and a cluster's id is above the ids of its children, so the
\* calls under the root finish in the order of the ids; order lists the
\* root's descendants in that order and st.i is the position in it
SelectLoop(ctx, order, st) ==
    IF st.i > Len(order) THEN st
    ELSE SelectLoop(ctx, order, select_clusters(ctx, order[st.i], st))

RECURSIVE ReachLoop(_, _, _)
\* the clusters the recursion from the root reaches: order lists the clusters
\* from the highest id down, and a reached cluster brings its children in
ReachLoop(cluster_children, order, st) ==
    IF st.i > Len(order) THEN st.reach
    ELSE LET c == order[Len(order) + 1 - st.i]
             children == DictGet(cluster_children, c, << >>)
         IN  ReachLoop(cluster_children, order,
                 [i |-> st.i + 1,
                  reach |-> IF c \in st.reach
                            THEN st.reach \cup {children[k] : k \in 1..Len(children)}
                            ELSE st.reach])

Descendants(cluster_children, root) ==
    ReachLoop(cluster_children, SortedList(DOMAIN cluster_children),
              [i |-> 1, reach |-> {root}])

RECURSIVE get_points_in_cluster(_, _, _)
get_points_in_cluster(cluster_children, n_points, cluster) ==
    IF cluster < n_points THEN {cluster}
    ELSE LET children == DictGet(cluster_children, cluster, << >>)
         IN  UNION {get_points_in_cluster(cluster_children, n_points, children[i]) :
                        i \in 1..Len(children)}

\* the set of selected clusters after select_clusters(root_cluster), with
\* root_cluster = max(all_clusters)
SelectedClusters(tree, cluster_sizes, cluster_birth, n_points, min_cluster_size) ==
    LET select(ix) ==
            SelectLoop([cluster_children |-> ix.cluster_children,
                        cluster_stability |->
                            ClusterStability(ix.all_clusters, n_points, cluster_sizes,
                                             cluster_birth, ix.cluster_lambda_max),
                        cluster_sizes |-> cluster_sizes,
                        min_cluster_size |-> min_cluster_size],
                       SortedList(Descendants(ix.cluster_children,
                                              SetMax(ix.all_clusters))),
                       [i |-> 1, ret |-> EmptyDict, selected |-> {}]).selected
    IN  select(TreeIndex(tree))

\* the locals of extract_clusters_eom after the call select_clusters(root_cluster),
\* for a non-empty tree: returned holds what the call of select_clusters on
\* each cluster under the root returned
ExtractionOf(tree, cluster_sizes, cluster_birth, n_points, min_cluster_size) ==
    LET pack(ix, stability, st) ==
            [all_clusters |-> ix.all_clusters,
             cluster_children |-> ix.cluster_children,
             cluster_lambda_max |-> ix.cluster_lambda_max,
             cluster_stability |-> stability,
             root_cluster |-> SetMax(ix.all_clusters),
             returned |-> st.ret,
             selected_clusters |-> st.selected]
        select(ix, stability) ==
            pack(ix, stability,
                 SelectLoop([cluster_children |-> ix.cluster_children,
                             cluster_stability |-> stability,
                             cluster_sizes |-> cluster_sizes,
                             min_cluster_size |-> min_cluster_size],
                            SortedList(Descendants(ix.cluster_children,
                                                   SetMax(ix.all_clusters))),
                            [i |-> 1, ret |-> EmptyDict, selected |-> {}]))
        stable(ix) ==
            select(ix, ClusterStability(ix.all_clusters, n_points, cluster_sizes,
                                        cluster_birth, ix.cluster_lambda_max))
    IN  stable(TreeIndex(tree))

\* the label loop overwriting the labels already set: a point takes the index
\* of the last cluster of sorted(selected_clusters) that contains it
AssignLabelsLast(cluster_children, n_points, selected) ==
    LET order == SortedList(selected)
        pts(k) == get_points_in_cluster(cluster_children, n_points, order[k])
        last(p) == IF \E k \in 1..Len(order) : p \in pts(k)
                   THEN (CHOOSE k \in 1..Len(order) :
                            /\ p \in pts(k)
                            /\ \A j \in (k + 1)..Len(order) : p \notin pts(j)) - 1
                   ELSE -1
    IN  Array([p \in Range0(n_points) |-> IF last(p) = -1 THEN 0 ELSE last(p)])

\* the label loop: a point takes the index of the first cluster of
\* sorted(selected_clusters) that contains it; what stays -1 becomes 0
AssignLabels(cluster_children, n_points, selected) ==
    LET order == SortedList(selected)
        pts(k) == get_points_in_cluster(cluster_children, n_points, order[k])
        first(p) == IF \E k \in 1..Len(order) : p \in pts(k)
                    THEN (CHOOSE k \in 1..Len(order) :
                            /\ p \in pts(k)
                            /\ \A j \in 1..(k - 1) : p \notin pts(j)) - 1
                    ELSE -1
    IN  Array([p \in Range0(n_points) |-> IF first(p) = -1 THEN 0 ELSE first(p)])

extract_clusters_eom(tree, cluster_sizes, cluster_birth, n_clusters, n_points, min_cluster_size) ==
    LET label(selected) ==
            IF selected = {} THEN [p \in Range0(n_points) |-> 0]
            ELSE AssignLabels(TreeIndex(tree).cluster_children, n_points, selected)
    IN  IF tree = << >> THEN [p \in Range0(n_points) |-> 0]
        ELSE label(SelectedClusters(tree, cluster_sizes, cluster_birth,
                                    n_points, min_cluster_size))

-----------------------------------------------------------------------------
(* hdbscan_clustering *)

\* an optional integer argument: None, or Some(v)
None == [given |-> FALSE, v |-> 0]
Some(v) == [given |-> TRUE, v |-> v]

ClampMinClusterSize(min_cluster_size, n) == Max2(2, Min2(min_cluster_size, n \div 2))

\* the min_samples clamp without its lower bound: min(min_samples, n - 1)
ClampMinSamplesNoFloor(min_cluster_size, min_samples, n) ==
    LET ms == IF min_samples = None THEN min_cluster_size ELSE min_samples.v
    IN  Min2(ms, n - 1)

\* the min_samples clamp with the default taken from min_cluster_size after
\* its clamp
ClampMinSamplesFromClamped(min_cluster_size, min_samples, n) ==
    LET ms == IF min_samples = None THEN ClampMinClusterSize(min_cluster_size, n)
              ELSE min_samples.v
    IN  Max2(1, Min2(ms, n - 1))

\* if min_samples is None: min_samples = min_cluster_size (before the clamp
\* of min_cluster_size); min_samples = max(1, min(min_samples, n - 1))
ClampMinSamples(min_cluster_size, min_samples, n) ==
    LET ms == IF min_samples = None THEN min_cluster_size ELSE min_samples.v
    IN  Max2(1, Min2(ms, n - 1))

\* the condensed tree hdbscan_clustering builds for its data: the distance
\* matrix, the core distances, the mutual reachability matrix, its spanning
\* tree and the condensed tree, each computed from the ones before
CondensedTreeOf(d, min_cluster_size, min_samples) ==
    LET n == Len(d)
        condense(mst_edges) ==
            Then(mst_edges,
                 build_condensed_tree(mst_edges, n, ClampMinClusterSize(min_cluster_size, n)))
        span(mutual_reach) ==
            Then(mutual_reach, condense(minimum_spanning_tree_prim(mutual_reach)))
        reach(distances, core_distances) ==
            Then(core_distances,
                 span(compute_mutual_reachability_distance(distances, core_distances)))
        core(distances) ==
            Then(distances,
                 reach(distances,
                       compute_core_distances(distances,
                           ClampMinSamples(min_cluster_size, min_samples, n))))
    IN  core(DistanceMatrix(d))

\* np.unique and the label_map relabelling at the end of hdbscan_clustering
Relabel(labels) ==
    LET unique_labels == SortedList({labels[i] : i \in DOMAIN labels} \cap Nat)
    IN  Array([i \in DOMAIN labels |->
            IF labels[i] \in Nat THEN IndexOf(unique_labels, labels[i]) ELSE 0])

\* hdbscan_clustering counting only the labels above 0 and without the
\* n_found == 0 fallback
hdbscan_clustering_strict(d, min_cluster_size, min_samples) ==
    LET n == Len(d)
        finish(labels) ==
            Then(labels, [labels |-> Relabel(labels),
                          k |-> Cardinality({labels[i] : i \in DOMAIN labels} \ (-1..0))])
        extract(ct) ==
            Then(ct, finish(extract_clusters_eom(ct.tree, ct.cluster_sizes, ct.cluster_birth,
                                ct.n_clusters, n, ClampMinClusterSize(min_cluster_size, n))))
    IN  IF n = 0 THEN [labels |-> << >>, k |-> 0]
        ELSE IF n = 1 THEN [labels |-> Array([i \in Range0(1) |-> 0]), k |-> 1]
        ELSE IF n = 2 THEN [labels |-> Array([i \in Range0(2) |-> 0]), k |-> 1]
        ELSE extract(CondensedTreeOf(d, min_cluster_size, min_samples))

\* hdbscan_clustering with the n = 2 case giving each point its own cluster
hdbscan_clustering_pair(d, min_cluster_size, min_samples) ==
    LET n == Len(d)
        count(labels, n_found) ==
            IF n_found = 0 THEN [labels |-> Array([i \in Range0(n) |-> 0]), k |-> 1]
            ELSE [labels |-> Relabel(labels), k |-> n_found]
        finish(labels) ==
            Then(labels, count(labels, Cardinality({labels[i] : i \in DOMAIN labels} \cap Nat)))
        extract(ct) ==
            Then(ct, finish(extract_clusters_eom(ct.tree, ct.cluster_sizes, ct.cluster_birth,
                                ct.n_clusters, n, ClampMinClusterSize(min_cluster_size, n))))
    IN  IF n = 0 THEN [labels |-> << >>, k |-> 0]
        ELSE IF n = 1 THEN [labels |-> Array([i \in Range0(1) |-> 0]), k |-> 1]
        ELSE IF n = 2 THEN [labels |-> Array([i \in Range0(2) |-> i]), k |-> 2]
        ELSE extract(CondensedTreeOf(d, min_cluster_size, min_samples))

hdbscan_clustering(d, min_cluster_size, min_samples) ==
    LET n == Len(d)
        \* n_clusters_found and the relabelling
        count(labels, n_found) ==
            IF n_found = 0 THEN [labels |-> Array([i \in Range0(n) |-> 0]), k |-> 1]
            ELSE [labels |-> Relabel(labels), k |-> n_found]
        finish(labels) ==
            Then(labels, count(labels, Cardinality({labels[i] : i \in DOMAIN labels} \cap Nat)))
        extract(ct) ==
            Then(ct, finish(extract_clusters_eom(ct.tree, ct.cluster_sizes, ct.cluster_birth,
                                ct.n_clusters, n, ClampMinClusterSize(min_cluster_size, n))))
    IN  IF n = 0 THEN [labels |-> << >>, k |-> 0]
        ELSE IF n = 1 THEN [labels |-> Array([i \in Range0(1) |-> 0]), k |-> 1]
        ELSE IF n = 2 THEN [labels |-> Array([i \in Range0(2) |-> 0]), k |-> 1]
        ELSE extract(CondensedTreeOf(d, min_cluster_size, min_samples))

-----------------------------------------------------------------------------
(* Hierarchical path: scipy's linkage and fcluster as the code calls them. *)
(* A merge height is a rational << num, den >> with den > 0.  For single   *)
(* and complete linkage it is the squared distance, for ward the squared   *)
(* merge cost, for average the mean of the fixed-point distances: each is  *)
(* an increasing function of the height scipy records, and heights are     *)
(* only ever compared with one another.                                    *)

RECURSIVE RatLess(_, _)
\* a < b for rationals with non-negative numerators, without cross products
RatLess(a, b) ==
    LET qa == a[1] \div a[2]
        qb == b[1] \div b[2]
        ra == a[1] % a[2]
        rb == b[1] % b[2]
    IN  IF qa # qb THEN qa < qb
        ELSE IF rb = 0 THEN FALSE
        ELSE IF ra = 0 THEN TRUE
        ELSE RatLess(<< b[2], rb >>, << a[2], ra >>)

RatLeq(a, b) == ~RatLess(b, a)

RECURSIVE SumRange(_, _, _, _)
\* the sum of f over the members of S in lo..hi
SumRange(f, S, lo, hi) ==
    IF lo > hi THEN 0
    ELSE IF lo = hi THEN (IF lo \in S THEN f[lo] ELSE 0)
    ELSE LET mid == (lo + hi) \div 2
         IN  SumRange(f, S, lo, mid) + SumRange(f, S, mid + 1, hi)

\* the sum of f over a finite set of naturals, f a function
SumOver(f, S) ==
    IF S = {} THEN 0 ELSE SumRange(f, S, -SetMax({-x : x \in S}), SetMax(S))

\* the linkage distance between two clusters (sets of row indices of d)
LinkageDist(d, method, A, B) ==
    LET pairs == A \X B
        d2(pr) == Dist2(d[pr[1] + 1], d[pr[2] + 1])
        row == Array([i \in A |->
                   SumOver(Array([j \in B |-> EuclideanDist(d[i + 1], d[j + 1])]), B)])
        nA == Cardinality(A)
        nB == Cardinality(B)
        xs == Array([i \in A \cup B |-> d[i + 1][1]])
        ys == Array([i \in A \cup B |-> d[i + 1][2]])
        dx == nB * SumOver(xs, A) - nA * SumOver(xs, B)
        dy == nB * SumOver(ys, A) - nA * SumOver(ys, B)
    IN  CASE method = "single"   -> << -SetMax({-d2(pr) : pr \in pairs}), 1 >>
          [] method = "complete" -> << SetMax({d2(pr) : pr \in pairs}), 1 >>
          [] method = "average"  -> << SumOver(row, A), nA * nB >>
          [] method = "ward"     -> << 2 * (dx * dx + dy * dy), nA * nB * (nA + nB) >>

\* the scan of nn_chain for the nearest active cluster of x: y starts at the
\* previous cluster of the chain (prev, -1 when there is none) and moves to i
\* when dist(x, i) < current_min, so it ends on prev when nothing is strictly
\* nearer and on the first nearest cluster otherwise
NNScan(d, method, members, x, prev) ==
    LET pick(dist, first) ==
            IF prev # -1 /\ ~RatLess(dist[first], dist[prev])
            THEN [y |-> prev, min |-> dist[prev]]
            ELSE [y |-> first, min |-> dist[first]]
        nearest(cand, dist) ==
            pick(dist, CHOOSE i \in cand :
                           \A j \in cand : /\ j < i => RatLess(dist[i], dist[j])
                                           /\ j > i => ~RatLess(dist[j], dist[i]))
        measure(cand) ==
            nearest(cand, Array([i \in cand |->
                                    LinkageDist(d, method, members[x], members[i])]))
    IN  measure({i \in Range0(Len(d)) : members[i] # {} /\ i # x})

RECURSIVE NNGrow(_, _, _, _)
\* extend the chain until its last two clusters are mutual nearest neighbours
NNGrow(d, method, members, chain) ==
    LET x == chain[Len(chain)]
        prev == IF Len(chain) > 1 THEN chain[Len(chain) - 1] ELSE -1
        grow(r) ==
            IF Len(chain) > 1 /\ r.y = prev
            THEN [chain |-> chain, x |-> x, y |-> r.y, min |-> r.min]
            ELSE NNGrow(d, method, members, Append(chain, r.y))
    IN  grow(NNScan(d, method, members, x, prev))

\* one merge of nn_chain: the chain starts at the first active cluster when
\* it is empty, and the two clusters at its end are merged into the larger id
NNChainStep(d, method, st) ==
    LET merge(x, y, g) ==
            [k |-> st.k + 1,
             members |-> [st.members EXCEPT ![x] = {},
                                            ![y] = st.members[x] \cup st.members[y]],
             chain |-> SubSeq(g.chain, 1, Len(g.chain) - 2),
             Z |-> Append(st.Z, [x |-> x, y |-> y, h |-> g.min])]
        ends(g) == merge(Min2(g.x, g.y), Max2(g.x, g.y), g)
        start(first) ==
            ends(NNGrow(d, method, st.members,
                        IF st.chain = << >> THEN << first >> ELSE st.chain))
    IN  start(CHOOSE i \in Range0(Len(d)) :
                  st.members[i] # {} /\ \A j \in Range0(i) : st.members[j] = {})

RECURSIVE NNChainLoop(_, _, _)
NNChainLoop(d, method, st) ==
    IF st.k >= Len(d) - 1 THEN st.Z ELSE NNChainLoop(d, method, NNChainStep(d, method, st))

\* the merges of nn_chain in the order they are made (complete, average, ward)
NNChain(d, method) ==
    NNChainLoop(d, method, [k |-> 0,
                            members |-> Array([i \in Range0(Len(d)) |-> {i}]),
                            chain |-> << >>,
                            Z |-> << >>])

\* one merge of mst_single_linkage: D[i] drops to dist(x, i) for the points
\* not yet merged, and y is the first of them with the least D
MstSingleStep(d, st) ==
    LET merged2 == st.merged \cup {st.x}
        open == Range0(Len(d)) \ merged2
        dist(i) == << Dist2(d[st.x + 1], d[i + 1]), 1 >>
        D2 == Array([i \in Range0(Len(d)) |->
                 IF i \in open /\ (st.D[i] = << >> \/ RatLess(dist(i), st.D[i]))
                 THEN dist(i) ELSE st.D[i]])
        y == CHOOSE i \in open :
                 \A j \in open : /\ RatLeq(D2[i], D2[j])
                                 /\ (j < i => RatLess(D2[i], D2[j]))
    IN  [k |-> st.k + 1, x |-> y, merged |-> merged2, D |-> D2,
         Z |-> Append(st.Z, [x |-> st.x, y |-> y, h |-> D2[y]])]

RECURSIVE MstSingleLoop(_, _)
\* the merges of mst_single_linkage in the order they are made
MstSingleLoop(d, st) ==
    IF st.k >= Len(d) - 1 THEN st.Z ELSE MstSingleLoop(d, MstSingleStep(d, st))

MstSingle(d) ==
    MstSingleLoop(d, [k |-> 0, x |-> 0, merged |-> {},
                      D |-> Array([i \in Range0(Len(d)) |-> << >>]),
                      Z |-> << >>])

\* np.argsort(Z[:, 2], kind='mergesort'): ascending height, stable
SortMerges(Z) ==
    LET before(i, j) == \/ RatLess(Z[i].h, Z[j].h)
                        \/ (~RatLess(Z[j].h, Z[i].h) /\ i < j)
        rank(j) == Cardinality({i \in DOMAIN Z : before(i, j)})
    IN  Array([k \in DOMAIN Z |-> Z[CHOOSE j \in DOMAIN Z : rank(j) = k - 1]])

\* one row of label(): the merge st.i of the sorted merges rewritten over
\* cluster ids; points are 0..n-1, the i-th merge (from 0) creates cluster
\* n+i; cid maps a point to the id of the cluster that holds it, and pts is
\* the set of points of the new cluster (its size is the row's count)
LabelStep(Z, n, st) ==
    LET a == st.cid[Z[st.i].x]
        b == st.cid[Z[st.i].y]
        new == n + st.i - 1
    IN  [i |-> st.i + 1,
         cid |-> Array([p \in Range0(n) |->
                    IF st.cid[p] = a \/ st.cid[p] = b THEN new ELSE st.cid[p]]),
         out |-> Append(st.out, [l |-> Min2(a, b), r |-> Max2(a, b), h |-> Z[st.i].h,
                                 pts |-> {p \in Range0(n) : st.cid[p] \in {a, b}}])]

RECURSIVE LabelMerges(_, _, _)
LabelMerges(Z, n, st) ==
    IF st.i > Len(Z) THEN st.out ELSE LabelMerges(Z, n, LabelStep(Z, n, st))

\* linkage(data, method=...): the merge tree, one record per merge
linkage(d, method) ==
    LET raw == IF method = "single" THEN MstSingle(d) ELSE NNChain(d, method)
    IN  LabelMerges(SortMerges(raw), Len(d),
                    [i |-> 1, cid |-> Array([p \in Range0(Len(d)) |-> p]), out |-> << >>])

\* how many merges of the sorted tree Z a maxclust cut at t applies: the
\* smallest threshold among the heights (or below them all) that leaves no
\* more than t flat clusters; merges of equal height are applied together
CutSize(Z, n, t) ==
    IF n - t <= 0 THEN 0
    ELSE SetMax({i \in 1..Len(Z) : RatLeq(Z[i].h, Z[n - t].h)})

\* fcluster(Z, t=t, criterion='maxclust') for the tree of n points.  The
\* flat clusters are the nodes made by the applied merges (and the points)
\* whose parent merge is not applied; cluster_monocrit numbers them in the
\* order of its walk from the root, which at every merge goes through the
\* left child if it is a merge, the right child if it is a merge, the left
\* child if it is a point, the right child if it is a point
fcluster(Z, n, t) ==
    LET m == CutSize(Z, n, t)
        Pts(node) == IF node < n THEN {node} ELSE Z[node - n + 1].pts
        Applied(node) == node < n \/ node - n + 1 <= m
        ParentOf(node) == CHOOSE j \in 1..Len(Z) : Z[j].l = node \/ Z[j].r = node
        IsTop(node) == Applied(node) /\ (node = 2 * n - 2 \/ ParentOf(node) > m)
        tops == {node \in 0..(2 * n - 2) : IsTop(node)}
        Lca(u, v) == CHOOSE j \in 1..Len(Z) :
                        /\ Pts(u) \cup Pts(v) \subseteq Z[j].pts
                        /\ \A i \in 1..(j - 1) : ~(Pts(u) \cup Pts(v) \subseteq Z[i].pts)
        Slot(j, u) == IF Z[j].l >= n /\ Pts(u) \subseteq Pts(Z[j].l) THEN 1
                      ELSE IF Z[j].r >= n /\ Pts(u) \subseteq Pts(Z[j].r) THEN 2
                      ELSE IF Z[j].l = u THEN 3 ELSE 4
        Before(v, u) == v # u /\ Slot(Lca(u, v), v) < Slot(Lca(u, v), u)
        number == Array([u \in tops |-> 1 + Cardinality({v \in tops : Before(v, u)})])
        topOf(p) == CHOOSE u \in tops : p \in Pts(u)
    IN  Array([p \in Range0(n) |-> number[topOf(p)]])

-----------------------------------------------------------------------------
(* Elbow selection *)

WScale == 60

\* np.sum((points - centroid) ** 2) for the rows in S, in units of 1/WScale
\* (exact for clusters of up to 6 points)
Wss(d, S) ==
    LET n == Cardinality(S)
        q == Array([i \in S |-> Sq(d[i + 1][1]) + Sq(d[i + 1][2])])
        xs == Array([i \in S |-> d[i + 1][1]])
        ys == Array([i \in S |-> d[i + 1][2]])
    IN  (WScale * (n * SumOver(q, S) - Sq(SumOver(xs, S)) - Sq(SumOver(ys, S)))) \div n

\* the WSS of the cut of Z at k: the sum over cluster ids 1..k that have points
WssAt(d, Z, k) ==
    LET pts(clusters, c) == {i \in Range0(Len(d)) : clusters[i] = c}
        within(S) == IF S # {} THEN Wss(d, S) ELSE 0
        total(clusters) ==
            SumOver(Array([c \in 1..k |-> within(pts(clusters, c))]), 1..k)
    IN  IF k = 1 THEN Wss(d, Range0(Len(d)))
        ELSE total(fcluster(Z, Len(d), k))

\* abs(arctan2(a, 1) - arctan2(b, 1)) as a comparable key << class, num, den >>:
\* the angle is atan(|a-b| / (1+ab)) when 1+ab > 0 (class 0), pi/2 when
\* 1+ab = 0 (class 1), and pi - atan(|a-b| / -(1+ab)) otherwise (class 2)
AngleKey(a, b) ==
    LET den == WScale * WScale + a * b
        num == (IF a >= b THEN a - b ELSE b - a) * WScale
    IN  IF den > 0 THEN << 0, num, den >>
        ELSE IF den = 0 THEN << 1, 0, 1 >>
        ELSE << 2, num, -den >>

AngleLess(k1, k2) ==
    IF k1[1] # k2[1] THEN k1[1] < k2[1]
    ELSE IF k1[1] = 0 THEN RatLess(<< k1[2], k1[3] >>, << k2[2], k2[3] >>)
    ELSE IF k1[1] = 2 THEN RatLess(<< k2[2], k2[3] >>, << k1[2], k1[3] >>)
    ELSE FALSE

\* the last position (0-based) holding the maximum
ArgMaxLast(angles) ==
    (CHOOSE i \in 1..Len(angles) :
        /\ \A j \in 1..Len(angles) : ~AngleLess(angles[i], angles[j])
        /\ \A j \in (i + 1)..Len(angles) : AngleLess(angles[j], angles[i])) - 1

\* np.argmax: the first position (0-based) holding the maximum
ArgMax(angles) ==
    (CHOOSE i \in 1..Len(angles) :
        /\ \A j \in 1..Len(angles) : ~AngleLess(angles[i], angles[j])
        /\ \A j \in 1..(i - 1) : AngleLess(angles[j], angles[i])) - 1

\* the linkage method the elbow's WSS curve is computed with
ElbowLinkage == "ward"

\* find_optimal_k_elbow with the early return at n <= 2 instead of n <= 3
find_optimal_k_elbow_two(d, max_k) ==
    LET n == Len(d)
        elbow(angles) == IF angles = << >> THEN 2 ELSE ArgMax(angles) + 2
        bend(wss_list) ==
            Then(wss_list,
                 IF Len(wss_list) < 3 THEN Min2(2, n)
                 ELSE elbow(Array([i \in 1..(Len(wss_list) - 2) |->
                                AngleKey(wss_list[i] - wss_list[i + 1],
                                         wss_list[i + 1] - wss_list[i + 2])])))
        curve(Z) ==
            Then(Z, bend(Array([k \in 1..Min2(max_k, n) |-> WssAt(d, Z, k)])))
    IN  IF n <= 2 THEN 1
        ELSE curve(linkage(d, ElbowLinkage))

find_optimal_k_elbow(d, max_k) ==
    LET n == Len(d)
        elbow(angles) == IF angles = << >> THEN 2 ELSE ArgMax(angles) + 2
        bend(wss_list) ==
            Then(wss_list,
                 IF Len(wss_list) < 3 THEN Min2(2, n)
                 ELSE elbow(Array([i \in 1..(Len(wss_list) - 2) |->
                                AngleKey(wss_list[i] - wss_list[i + 1],
                                         wss_list[i + 1] - wss_list[i + 2])])))
        curve(Z) ==
            Then(Z, bend(Array([k \in 1..Min2(max_k, n) |-> WssAt(d, Z, k)])))
    IN  IF n <= 3 THEN 1
        ELSE curve(linkage(d, ElbowLinkage))

\* hierarchical_clustering without the "- 1" on fcluster's labels
hierarchical_clustering_unshifted(d, max_k, method) ==
    LET n == Len(d)
        result(optimal_k, T) ==
            Then(T, [labels |-> Array([i \in Range0(n) |-> T[i]]), k |-> optimal_k])
        cut(optimal_k, Z) == Then(Z, result(optimal_k, fcluster(Z, n, optimal_k)))
        tree(optimal_k) == Then(optimal_k, cut(optimal_k, linkage(d, method)))
    IN  IF n = 0 THEN [labels |-> << >>, k |-> 0]
        ELSE IF n = 1 THEN [labels |-> Array([i \in Range0(1) |-> 0]), k |-> 1]
        ELSE tree(find_optimal_k_elbow(d, max_k))

hierarchical_clustering(d, max_k, method) ==
    LET n == Len(d)
        result(optimal_k, T) ==
            Then(T, [labels |-> Array([i \in Range0(n) |-> T[i] - 1]), k |-> optimal_k])
        cut(optimal_k, Z) == Then(Z, result(optimal_k, fcluster(Z, n, optimal_k)))
        tree(optimal_k) == Then(optimal_k, cut(optimal_k, linkage(d, method)))
    IN  IF n = 0 THEN [labels |-> << >>, k |-> 0]
        ELSE IF n = 1 THEN [labels |-> Array([i \in Range0(1) |-> 0]), k |-> 1]
        ELSE tree(find_optimal_k_elbow(d, max_k))

-----------------------------------------------------------------------------
(* Inputs *)

Linkages == {"ward", "complete", "average", "single"}

Grid == (0..MaxCoord) \X (0..MaxCoord)

\* every point sequence of up to MaxN points on the grid (the empty array is
\* what --log2 leaves when it filters every row out)
GridInputs == UNION {[1..k -> Grid] : k \in 0..MaxN}

\* the scenario of the specification's section 8
ScenarioInput == << <<1, 2>>, <<1, 3>>, <<10, 11>>, <<10, 12>>, <<10, 9>> >>

DefaultMaxK == 7
DefaultMinClusterSize == 5

\* the command lines: max_k and --linkage matter to the hierarchical method,
\* --min_cluster_size and --min_samples to hdbscan; the others keep defaults
HierarchicalArgs ==
    [method : {"hierarchical"}, max_k : 1..MaxK, linkage : Linkages,
     min_cluster_size : {DefaultMinClusterSize}, min_samples : {None}]

HdbscanArgs ==
    [method : {"hdbscan"}, max_k : {DefaultMaxK}, linkage : {"ward"},
     min_cluster_size : 0..MaxMinClusterSize,
     min_samples : {None} \cup {Some(v) : v \in 0..MaxMinSamples}]

Args == HierarchicalArgs \cup HdbscanArgs

-----------------------------------------------------------------------------
(* main(): the orchestrator, from the split on *)

\* the clusterer main() dispatches a sub-group to
Dispatch(a, sub) ==
    IF a.method = "hierarchical"
    THEN hierarchical_clustering(sub, a.max_k, a.linkage)
    ELSE hdbscan_clustering(sub, a.min_cluster_size, a.min_samples)

\* the offset without the "+ 1": the largest positive label itself
OffsetAfterMax(labels) ==
    IF DOMAIN labels # {} THEN SetMax({labels[i] : i \in DOMAIN labels}) ELSE 0

\* pos_clusters.max() + 1 if len(pos_clusters) > 0 else 0
OffsetAfter(labels) ==
    IF DOMAIN labels # {} THEN SetMax({labels[i] : i \in DOMAIN labels}) + 1 ELSE 0

\* for i, idx in enumerate(indices): out[idx] = labels[i] + offset
WriteLabels(out, indices, labels, offset) ==
    [idx \in DOMAIN out |->
        IF \E i \in 1..Len(indices) : indices[i] = idx
        THEN labels[(CHOOSE i \in 1..Len(indices) : indices[i] = idx) - 1] + offset
        ELSE out[idx]]

InitRest ==
    /\ pos_indices = << >>
    /\ neg_indices = << >>
    /\ pos_clusters = << >>
    /\ pos_k = -1
    /\ neg_clusters = << >>
    /\ neg_k = -1
    /\ all_clusters = << >>
    /\ cluster_offset = 0
    /\ total_clusters = -1
    /\ ret = [labels |-> << >>, k |-> -1]
    /\ frames = << >>
    /\ density = << >>
    /\ union_find = << >>

Init ==
    /\ data \in GridInputs \cup {ScenarioInput}
    /\ args \in Args
    /\ pc = "split"
    /\ InitRest

Split ==
    /\ pc = "split"
    /\ pos_indices' = split_by_direction(data)[1]
    /\ neg_indices' = split_by_direction(data)[2]
    /\ all_clusters' = [i \in Range0(Len(data)) |-> 0]
    /\ cluster_offset' = 0
    /\ pc' = "pos"
    /\ UNCHANGED << union_find, frames, density, data, args, pos_clusters, pos_k, neg_clusters, neg_k,
                    total_clusters, ret >>

ClusterPos ==
    /\ pc = "pos"
    /\ Len(pos_indices) > 0
    /\ \E r \in {Dispatch(args, Take(data, pos_indices))} :
           /\ pos_clusters' = r.labels
           /\ pos_k' = r.k
           /\ all_clusters' = WriteLabels(all_clusters, pos_indices, r.labels, 0)
           /\ cluster_offset' = OffsetAfter(r.labels)
    /\ pc' = "neg"
    /\ UNCHANGED << union_find, frames, density, data, args, pos_indices, neg_indices, neg_clusters, neg_k,
                    total_clusters, ret >>

SkipPos ==
    /\ pc = "pos"
    /\ Len(pos_indices) = 0
    /\ pc' = "neg"
    /\ UNCHANGED << union_find, frames, density, data, args, pos_indices, neg_indices, pos_clusters, pos_k,
                    neg_clusters, neg_k, all_clusters, cluster_offset,
                    total_clusters, ret >>

ClusterNeg ==
    /\ pc = "neg"
    /\ Len(neg_indices) > 0
    /\ \E r \in {Dispatch(args, Take(data, neg_indices))} :
           /\ neg_clusters' = r.labels
           /\ neg_k' = r.k
           /\ all_clusters' = WriteLabels(all_clusters, neg_indices, r.labels, cluster_offset)
    /\ pc' = "summary"
    /\ UNCHANGED << union_find, frames, density, data, args, pos_indices, neg_indices, pos_clusters, pos_k,
                    cluster_offset, total_clusters, ret >>

SkipNeg ==
    /\ pc = "neg"
    /\ Len(neg_indices) = 0
    /\ pc' = "summary"
    /\ UNCHANGED << union_find, frames, density, data, args, pos_indices, neg_indices, pos_clusters, pos_k,
                    neg_clusters, neg_k, all_clusters, cluster_offset,
                    total_clusters, ret >>

Summary ==
    /\ pc = "summary"
    /\ total_clusters' = Cardinality({all_clusters[i] : i \in DOMAIN all_clusters})
    /\ pc' = "done"
    /\ UNCHANGED << union_find, frames, density, data, args, pos_indices, neg_indices, pos_clusters, pos_k,
                    neg_clusters, neg_k, all_clusters, cluster_offset, ret >>

Next == Split \/ ClusterPos \/ SkipPos \/ ClusterNeg \/ SkipNeg \/ Summary

Spec == Init /\ [][Next]_vars

-----------------------------------------------------------------------------
(* A clusterer called on its own: hierarchical_clustering or              *)
(* hdbscan_clustering applied to data as one sub-group, the empty one     *)
(* included                                                                *)

InitCall ==
    /\ data \in GridInputs
    /\ args \in Args
    /\ pc = "call"
    /\ InitRest

Call ==
    /\ pc = "call"
    /\ \E r \in {Dispatch(args, data)} : ret' = r
    /\ pc' = "returned"
    /\ UNCHANGED << union_find, frames, density, data, args, pos_indices, neg_indices, pos_clusters, pos_k,
                    neg_clusters, neg_k, all_clusters, cluster_offset,
                    total_clusters >>

NextCall == Call

SpecCall == InitCall /\ [][NextCall]_vars

-----------------------------------------------------------------------------
(* main() on the two-clump scenario: 20 points of one sign, ten around    *)
(* the origin and ten moved away along the diagonal                       *)

ClumpA == << <<0, 0>>, <<0, 1>>, <<1, 1>>, <<0, 2>>, <<1, 2>>,
             <<2, 2>>, <<1, 3>>, <<2, 3>>, <<0, 3>>, <<1, 4>> >>

ClumpB == << <<0, 0>>, <<0, 1>>, <<0, 2>>, <<1, 1>>, <<1, 2>>,
             <<1, 3>>, <<2, 2>>, <<2, 3>>, <<2, 4>>, <<3, 3>> >>

Shifted(d, g) == Array([i \in 1..Len(d) |-> << d[i][1] + g, d[i][2] + g >>])

\* the same clumps below the diagonal (y < x)
Mirrored(d) == Array([i \in 1..Len(d) |-> << d[i][2] + 1, d[i][1] >>])

ClumpInputs ==
    LET above == {a \o Shifted(b, g) : a \in {ClumpA, ClumpB}, b \in {ClumpA, ClumpB},
                                       g \in {30, 40}}
    IN  above \cup {Mirrored(d) : d \in above}

ClumpArgs ==
    [method : {"hierarchical"}, max_k : {DefaultMaxK}, linkage : Linkages,
     min_cluster_size : {DefaultMinClusterSize}, min_samples : {None}]
    \cup
    [method : {"hdbscan"}, max_k : {DefaultMaxK}, linkage : {"ward"},
     min_cluster_size : {3}, min_samples : {None}]

InitClumps ==
    /\ data \in ClumpInputs
    /\ args \in ClumpArgs
    /\ pc = "split"
    /\ InitRest

SpecClumps == InitClumps /\ [][Next]_vars

-----------------------------------------------------------------------------
(* Properties of the orchestrator (Spec)                                   *)

\* the distinct labels of a label vector
LabelSet(labels) == {labels[i] : i \in DOMAIN labels}

\* the members of an index list
IndexSet(indices) == {indices[i] : i \in 1..Len(indices)}

\* C1: on the scenario input with the density method and min_cluster_size=2
\* the positive sub-group is indices 0,1,2,3 and the negative one is index 4;
\* (1,2),(1,3) share a cluster, (10,11),(10,12) share a different one, and
\* the negative point has sub-group label 0 with cluster count 1
C1_ScenarioDensity ==
    (/\ pc = "done"
     /\ data = ScenarioInput
     /\ args.method = "hdbscan"
     /\ args.min_cluster_size = 2)
    => /\ pos_indices = << 0, 1, 2, 3 >>
       /\ neg_indices = << 4 >>
       /\ pos_clusters[0] = pos_clusters[1]
       /\ pos_clusters[2] = pos_clusters[3]
       /\ pos_clusters[0] # pos_clusters[2]
       /\ neg_clusters[0] = 0
       /\ neg_k = 1

\* C3: after the split the two index lists partition 0..n-1, index i is in
\* the positive list exactly when y_i - x_i >= 0 (a tie is positive), each
\* list is strictly increasing, and an empty input gives two empty lists
C3_SplitPartition ==
    pc # "split" =>
        /\ IndexSet(pos_indices) \cup IndexSet(neg_indices) = Range0(Len(data))
        /\ IndexSet(pos_indices) \cap IndexSet(neg_indices) = {}
        /\ \A i \in Range0(Len(data)) :
               i \in IndexSet(pos_indices) <=> data[i + 1][2] - data[i + 1][1] >= 0
        /\ \A i \in 1..(Len(pos_indices) - 1) : pos_indices[i] < pos_indices[i + 1]
        /\ \A i \in 1..(Len(neg_indices) - 1) : neg_indices[i] < neg_indices[i + 1]
        /\ Len(data) = 0 => pos_indices = << >> /\ neg_indices = << >>

\* a split with a tie point, at least two points in the positive list and a
\* non-empty negative list
C3_Witness ==
    /\ pc = "pos"
    /\ \E i \in 1..Len(data) : data[i][1] = data[i][2]
    /\ Len(pos_indices) >= 2
    /\ Len(neg_indices) >= 1

\* C4: in the finished output vector every index of the positive list holds
\* its sub-group label, every index of the negative list holds its sub-group
\* label plus max(positive labels) + 1 (plus 0 when the positive sub-group is
\* empty), and no positive point shares its label with a negative point
C4_OffsetLabels ==
    pc = "done" =>
        LET shift == IF Len(pos_indices) > 0 THEN SetMax(LabelSet(pos_clusters)) + 1 ELSE 0
        IN  /\ \A i \in 1..Len(pos_indices) :
                   all_clusters[pos_indices[i]] = pos_clusters[i - 1]
            /\ \A i \in 1..Len(neg_indices) :
                   all_clusters[neg_indices[i]] = neg_clusters[i - 1] + shift
            /\ \A i \in IndexSet(pos_indices) : \A j \in IndexSet(neg_indices) :
                   all_clusters[i] # all_clusters[j]

\* a finished run with both sub-groups non-empty and two positive clusters
C4_Witness ==
    /\ pc = "done"
    /\ Len(neg_indices) > 0
    /\ Cardinality(LabelSet(pos_clusters)) >= 2

\* C5: the labels a clusterer returns for a non-empty sub-group, before the
\* offset, are exactly 0..m-1 for some m >= 1
C5_ContiguousLabels ==
    pc = "done" =>
        /\ Len(pos_indices) > 0 =>
               /\ LabelSet(pos_clusters) = Range0(Cardinality(LabelSet(pos_clusters)))
               /\ Cardinality(LabelSet(pos_clusters)) >= 1
        /\ Len(neg_indices) > 0 =>
               /\ LabelSet(neg_clusters) = Range0(Cardinality(LabelSet(neg_clusters)))
               /\ Cardinality(LabelSet(neg_clusters)) >= 1

\* a finished hierarchical run whose positive sub-group has three labels
C5_Witness ==
    /\ pc = "done"
    /\ args.method = "hierarchical"
    /\ Cardinality(LabelSet(pos_clusters)) >= 3

\* C6: the count reported for each non-empty sub-group is the number of
\* distinct labels of its points, and the total is the number of distinct
\* labels of the output vector, the sum of the two counts
C6_CountsMatchLabels ==
    pc = "done" =>
        /\ Len(pos_indices) > 0 => pos_k = Cardinality(LabelSet(pos_clusters))
        /\ Len(neg_indices) > 0 => neg_k = Cardinality(LabelSet(neg_clusters))
        /\ total_clusters = Cardinality(LabelSet(all_clusters))
        /\ total_clusters = (IF Len(pos_indices) > 0 THEN pos_k ELSE 0)
                            + (IF Len(neg_indices) > 0 THEN neg_k ELSE 0)

-----------------------------------------------------------------------------
(* Properties of the clusterers called on their own (SpecCall, SpecClumps) *)

\* C2: on two well separated clumps of ten points each with one diff sign,
\* the clusterer (hierarchical with max_k=7, hdbscan with min_cluster_size=3)
\* reports exactly 2 clusters for the sub-group and gives the points of each
\* clump one label, different for the two clumps
C2_TwoClumps ==
    pc = "done" =>
        LET labels == IF Len(pos_indices) > 0 THEN pos_clusters ELSE neg_clusters
            k == IF Len(pos_indices) > 0 THEN pos_k ELSE neg_k
        IN  /\ k = 2
            /\ \A i \in 0..9 : labels[i] = labels[0]
            /\ \A i \in 10..19 : labels[i] = labels[10]
            /\ labels[0] # labels[10]

\* all points of the input are the same point
Identical(d) == \A i \in 1..Len(d) : d[i] = d[1]

\* C8: for n >= 3 identical points hdbscan_clustering has core distances 0,
\* mutual reachability 0 everywhere, spanning tree weights 0, lambda = +inf
\* on both entries of each of the n-1 merges, and returns label 0 for every
\* point with count 1
C8_IdenticalPoints ==
    (/\ pc = "returned"
     /\ args.method = "hdbscan"
     /\ Len(data) >= 3
     /\ Identical(data))
    => LET n == Len(data)
           distances == DistanceMatrix(data)
           core == compute_core_distances(distances,
                       ClampMinSamples(args.min_cluster_size, args.min_samples, n))
           mutual == compute_mutual_reachability_distance(distances, core)
           mst == minimum_spanning_tree_prim(mutual)
           tree == build_condensed_tree(mst, n,
                       ClampMinClusterSize(args.min_cluster_size, n)).tree
       IN  /\ \A i \in Range0(n) : core[i] = 0
           /\ \A i \in Range0(n) : \A j \in Range0(n) : mutual[i][j] = 0
           /\ Len(mst) = n - 1
           /\ \A e \in 1..Len(mst) : mst[e].w = 0
           /\ Len(tree) = 2 * (n - 1)
           /\ \A e \in 1..Len(tree) : tree[e].lambda_val = PInf
           /\ DOMAIN ret.labels = Range0(n)
           /\ \A i \in Range0(n) : ret.labels[i] = 0
           /\ ret.k = 1

\* hdbscan_clustering has returned for four or more identical points, with
\* min_samples given
C8_Witness ==
    /\ pc = "returned"
    /\ args.method = "hdbscan"
    /\ args.min_samples # None
    /\ Len(data) >= 4
    /\ Identical(data)

\* C9 as stated: for n = 0, 1, 2, 3 points, any max_k and any linkage,
\* hierarchical_clustering reports count 1 and labels every point 0
C9_SmallInputOneCluster ==
    (pc = "returned" /\ args.method = "hierarchical" /\ Len(data) <= 3)
    => /\ ret.k = 1
       /\ \A i \in DOMAIN ret.labels : ret.labels[i] = 0

\* C9 amended: for n = 1, 2, 3 points, any max_k and any linkage,
\* hierarchical_clustering reports count 1 and labels every point 0; for
\* n = 0 it returns an empty label vector and count 0
C9_SmallInputAmended ==
    (pc = "returned" /\ args.method = "hierarchical" /\ Len(data) <= 3)
    => IF Len(data) = 0
       THEN ret.labels = << >> /\ ret.k = 0
       ELSE /\ ret.k = 1
            /\ DOMAIN ret.labels = Range0(Len(data))
            /\ \A i \in Range0(Len(data)) : ret.labels[i] = 0

\* hierarchical_clustering has returned for three distinct points with
\* max_k above 1
C9_Witness ==
    /\ pc = "returned"
    /\ args.method = "hierarchical"
    /\ args.max_k >= 2
    /\ Len(data) = 3
    /\ Cardinality({data[i] : i \in 1..3}) = 3

\* C10: hdbscan_clustering returns an empty label vector for n = 0, label
\* [0] with count 1 for n = 1 and labels [0, 0] with count 1 for n = 2,
\* whatever min_cluster_size and min_samples are
C10_DegenerateSizes ==
    (pc = "returned" /\ args.method = "hdbscan")
    => /\ Len(data) = 0 => ret.labels = << >>
       /\ Len(data) = 1 => DOMAIN ret.labels = {0} /\ ret.labels[0] = 0 /\ ret.k = 1
       /\ Len(data) = 2 => /\ DOMAIN ret.labels = {0, 1}
                           /\ ret.labels[0] = 0 /\ ret.labels[1] = 0
                           /\ ret.k = 1

\* hdbscan_clustering has returned for two distinct points, with the largest
\* min_cluster_size and min_samples given
C10_Witness ==
    /\ pc = "returned"
    /\ args.method = "hdbscan"
    /\ args.min_cluster_size = MaxMinClusterSize
    /\ args.min_samples # None
    /\ Len(data) = 2
    /\ data[1] # data[2]

\* C11 as stated: for n >= 3 and whatever min_cluster_size and min_samples
\* are given, hdbscan_clustering returns, and the values it goes on with
\* satisfy 2 <= min_cluster_size <= n // 2 and 1 <= min_samples <= n - 1
C11_ClampedParameters ==
    (pc = "returned" /\ args.method = "hdbscan" /\ Len(data) >= 3)
    => LET n == Len(data)
           mcs == ClampMinClusterSize(args.min_cluster_size, n)
           ms == ClampMinSamples(args.min_cluster_size, args.min_samples, n)
       IN  /\ DOMAIN ret.labels = Range0(n)
           /\ 2 <= mcs /\ mcs <= n \div 2
           /\ 1 <= ms /\ ms <= n - 1

\* C11 amended: for n >= 3 and whatever min_cluster_size and min_samples are
\* given, hdbscan_clustering returns, and the values it goes on with satisfy
\* 2 <= min_cluster_size <= max(2, n // 2) and 1 <= min_samples <= n - 1, so
\* min_samples is a position of a distance row
C11_ClampedParametersAmended ==
    (pc = "returned" /\ args.method = "hdbscan" /\ Len(data) >= 3)
    => LET n == Len(data)
           mcs == ClampMinClusterSize(args.min_cluster_size, n)
           ms == ClampMinSamples(args.min_cluster_size, args.min_samples, n)
       IN  /\ DOMAIN ret.labels = Range0(n)
           /\ 2 <= mcs /\ mcs <= Max2(2, n \div 2)
           /\ 1 <= ms /\ ms <= n - 1
           /\ ms \in DOMAIN DistanceMatrix(data)[0]

\* hdbscan_clustering has returned for five points with min_cluster_size
\* above n // 2 and min_samples below 1
C11_Witness ==
    /\ pc = "returned"
    /\ args.method = "hdbscan"
    /\ Len(data) = 5
    /\ args.min_cluster_size > 2
    /\ args.min_samples = Some(0)

\* selected_clusters after select_clusters(root_cluster) in the call
\* hdbscan_clustering(d, a.min_cluster_size, a.min_samples), for 3 or more points
SelectedOf(d, a) ==
    LET select(ct) ==
            SelectedClusters(ct.tree, ct.cluster_sizes, ct.cluster_birth, Len(d),
                             ClampMinClusterSize(a.min_cluster_size, Len(d)))
    IN  select(CondensedTreeOf(d, a.min_cluster_size, a.min_samples))

\* C12: when the extraction selects no cluster, hdbscan_clustering returns
\* label 0 for each of the n points and reports count 1
C12_EmptySelectionFallback ==
    (/\ pc = "returned"
     /\ args.method = "hdbscan"
     /\ Len(data) >= 3
     /\ SelectedOf(data, args) = {})
    => /\ DOMAIN ret.labels = Range0(Len(data))
       /\ \A i \in Range0(Len(data)) : ret.labels[i] = 0
       /\ ret.k = 1

\* hdbscan_clustering has returned for five points, four of them distinct,
\* and the extraction selected nothing
C12_Witness ==
    /\ pc = "returned"
    /\ args.method = "hdbscan"
    /\ Len(data) = 5
    /\ Cardinality({data[i] : i \in 1..Len(data)}) = 4
    /\ SelectedOf(data, args) = {}

\* C13: for n >= 1 points and max_k >= 1 the cluster count the hierarchical
\* path selects, which fcluster is asked for and which is reported, is at
\* least 1 and at most min(max_k, n)
C13_ElbowWithinCap ==
    (pc = "returned" /\ args.method = "hierarchical" /\ Len(data) >= 1)
    => /\ 1 <= ret.k
       /\ ret.k <= Min2(args.max_k, Len(data))
       /\ ret.k = find_optimal_k_elbow(data, args.max_k)

-----------------------------------------------------------------------------
(* The two clusterer calls of main() run statement by statement.  A frame  *)
(* holds the local variables of one call: stage names the next statement,  *)
(* and a local that is not assigned yet is << >>.                          *)

FrameInit(sub) ==
    [stage |-> "start", d |-> sub, min_cluster_size |-> 0, min_samples |-> 0,
     distances |-> << >>, core_distances |-> << >>, mutual_reach |-> << >>,
     mst_edges |-> << >>, ct |-> << >>, labels |-> << >>,
     optimal_k |-> 0, Z |-> << >>, result |-> [labels |-> << >>, k |-> -1]]

\* the next statement of hdbscan_clustering on the frame f
HdbscanStep(a, f) ==
    LET n == Len(f.d)
        return(r) == [f EXCEPT !.stage = "done", !.result = r]
        count(labels, n_found) ==
            IF n_found = 0 THEN [labels |-> Array([i \in Range0(n) |-> 0]), k |-> 1]
            ELSE [labels |-> Relabel(labels), k |-> n_found]
    IN  CASE f.stage = "start" ->
                 IF n = 0 THEN return([labels |-> << >>, k |-> 0])
                 ELSE IF n = 1 THEN return([labels |-> Array([i \in Range0(1) |-> 0]), k |-> 1])
                 ELSE IF n = 2 THEN return([labels |-> Array([i \in Range0(2) |-> 0]), k |-> 1])
                 ELSE [f EXCEPT !.stage = "distances",
                                !.min_cluster_size = ClampMinClusterSize(a.min_cluster_size, n),
                                !.min_samples = ClampMinSamples(a.min_cluster_size,
                                                                a.min_samples, n)]
          [] f.stage = "distances" ->
                 [f EXCEPT !.stage = "core", !.distances = DistanceMatrix(f.d)]
          [] f.stage = "core" ->
                 [f EXCEPT !.stage = "reach",
                           !.core_distances = compute_core_distances(f.distances, f.min_samples)]
          [] f.stage = "reach" ->
                 [f EXCEPT !.stage = "mst",
                           !.mutual_reach = compute_mutual_reachability_distance(
                                                f.distances, f.core_distances)]
          [] f.stage = "mst" ->
                 [f EXCEPT !.stage = "tree",
                           !.mst_edges = minimum_spanning_tree_prim(f.mutual_reach)]
          [] f.stage = "tree" ->
                 [f EXCEPT !.stage = "extract",
                           !.ct = build_condensed_tree(f.mst_edges, n, f.min_cluster_size)]
          [] f.stage = "extract" ->
                 [f EXCEPT !.stage = "relabel",
                           !.labels = extract_clusters_eom(f.ct.tree, f.ct.cluster_sizes,
                                          f.ct.cluster_birth, f.ct.n_clusters, n,
                                          f.min_cluster_size)]
          [] f.stage = "relabel" ->
                 return(count(f.labels,
                              Cardinality({f.labels[i] : i \in DOMAIN f.labels} \cap Nat)))

\* the next statement of hierarchical_clustering on the frame f
HierarchicalStep(a, f) ==
    LET n == Len(f.d)
        return(r) == [f EXCEPT !.stage = "done", !.result = r]
        shifted(T) == [labels |-> Array([i \in Range0(n) |-> T[i] - 1]), k |-> f.optimal_k]
    IN  CASE f.stage = "start" ->
                 IF n = 0 THEN return([labels |-> << >>, k |-> 0])
                 ELSE IF n = 1 THEN return([labels |-> Array([i \in Range0(1) |-> 0]), k |-> 1])
                 ELSE [f EXCEPT !.stage = "elbow"]
          [] f.stage = "elbow" ->
                 [f EXCEPT !.stage = "linkage",
                           !.optimal_k = find_optimal_k_elbow(f.d, a.max_k)]
          [] f.stage = "linkage" ->
                 [f EXCEPT !.stage = "cut", !.Z = linkage(f.d, a.linkage)]
          [] f.stage = "cut" ->
                 return(shifted(fcluster(f.Z, n, f.optimal_k)))

\* the next statement of the clusterer main() dispatched the frame's call to
FrameStep(a, f) ==
    IF a.method = "hierarchical" THEN HierarchicalStep(a, f) ELSE HdbscanStep(a, f)

\* the other sub-group
OtherRun(g) == IF g = "pos" THEN "neg" ELSE "pos"

\* what the matrices and trees of the calls would be as module-level
\* variables: the call of g finds the other call's distances and merge tree
\* once those are assigned
SharedFrame(fs, g) ==
    [fs[g] EXCEPT !.distances = IF fs[OtherRun(g)].stage \in {"start", "distances", "done"}
                                 THEN @ ELSE fs[OtherRun(g)].distances,
                  !.Z = IF fs[OtherRun(g)].stage \in {"start", "elbow", "linkage", "done"}
                        THEN @ ELSE fs[OtherRun(g)].Z]

\* the locals a statement of the call for sub-group g works on: its own
OwnFrame(fs, g) == fs[g]

\* inputs with both sub-groups large enough for every statement to run:
\* four points with y >= x followed by three with y < x
PosPoints == { <<0, 0>>, <<0, 1>>, <<1, 3>> }
NegPoints == { <<1, 0>>, <<3, 1>> }

InterleaveInputs == {p \o q : p \in [1..4 -> PosPoints], q \in [1..3 -> NegPoints]}

\* one command line per linkage algorithm (nn_chain, mst_single_linkage) and
\* one for the density method
InterleaveArgs ==
    [method : {"hierarchical"}, max_k : {MaxK}, linkage : {"ward", "single"},
     min_cluster_size : {DefaultMinClusterSize}, min_samples : {None}]
    \cup [method : {"hdbscan"}, max_k : {DefaultMaxK}, linkage : {"ward"},
          min_cluster_size : {2}, min_samples : {None}]

\* main() after the split, with the two calls about to start
InitInterleaved ==
    /\ data \in InterleaveInputs
    /\ args \in InterleaveArgs
    /\ pc = "clustering"
    /\ pos_indices = split_by_direction(data)[1]
    /\ neg_indices = split_by_direction(data)[2]
    /\ frames = [pos |-> FrameInit(Take(data, split_by_direction(data)[1])),
                 neg |-> FrameInit(Take(data, split_by_direction(data)[2]))]
    /\ pos_clusters = << >>
    /\ pos_k = -1
    /\ neg_clusters = << >>
    /\ neg_k = -1
    /\ all_clusters = [i \in Range0(Len(data)) |-> 0]
    /\ cluster_offset = 0
    /\ total_clusters = -1
    /\ ret = [labels |-> << >>, k |-> -1]
    /\ density = << >>
    /\ union_find = << >>

\* one statement of the call for the positive sub-group
StepPosRun ==
    /\ pc = "clustering"
    /\ frames.pos.stage # "done"
    /\ frames' = [frames EXCEPT !.pos = FrameStep(args, OwnFrame(frames, "pos"))]
    /\ UNCHANGED << union_find, density, data, args, pc, pos_indices, neg_indices, pos_clusters,
                    pos_k, neg_clusters, neg_k, all_clusters, cluster_offset,
                    total_clusters, ret >>

\* one statement of the call for the negative sub-group
StepNegRun ==
    /\ pc = "clustering"
    /\ frames.neg.stage # "done"
    /\ frames' = [frames EXCEPT !.neg = FrameStep(args, OwnFrame(frames, "neg"))]
    /\ UNCHANGED << union_find, density, data, args, pc, pos_indices, neg_indices, pos_clusters,
                    pos_k, neg_clusters, neg_k, all_clusters, cluster_offset,
                    total_clusters, ret >>

NextInterleaved == StepPosRun \/ StepNegRun

SpecInterleaved == InitInterleaved /\ [][NextInterleaved]_vars

RECURSIVE RunTo(_, _, _)
\* the frame of a call run on its own from f up to the statement stage
RunTo(a, f, stage) ==
    IF f.stage = stage THEN f ELSE RunTo(a, FrameStep(a, f), stage)

\* C14: however the statements of the two calls are interleaved, the locals
\* of each call (distance matrix, core distances, mutual reachability,
\* spanning tree, condensed tree, merge tree, labels) are the ones the call
\* has when it runs alone on its own sub-group, and the labels and count it
\* returns are those of the call made in one go
C14_IndependentRuns ==
    pc = "clustering" =>
        /\ frames.pos = RunTo(args, FrameInit(Take(data, pos_indices)), frames.pos.stage)
        /\ frames.neg = RunTo(args, FrameInit(Take(data, neg_indices)), frames.neg.stage)
        /\ frames.pos.stage = "done" =>
               frames.pos.result = Dispatch(args, Take(data, pos_indices))
        /\ frames.neg.stage = "done" =>
               frames.neg.result = Dispatch(args, Take(data, neg_indices))

\* the call for the negative sub-group has returned while the call for the
\* positive one, started before it, has only its distance matrix
C14_Witness ==
    /\ pc = "clustering"
    /\ args.method = "hdbscan"
    /\ frames.neg.stage = "done"
    /\ frames.pos.stage = "core"
    /\ Cardinality({frames.pos.d[i] : i \in DOMAIN frames.pos.d}) >= 3

-----------------------------------------------------------------------------
(* The functions of the density path called one after the other on a      *)
(* symmetric weight matrix: minimum_spanning_tree_prim on the matrix,      *)
(* build_condensed_tree on its edges, extract_clusters_eom on the tree     *)

MaxPrimN == 4
MaxWeight == 3

PairsOf(n) == {p \in Range0(n) \X Range0(n) : p[1] < p[2]}

\* the n x n matrix with zero diagonal whose entries (i, j) and (j, i) are w[i, j]
SymmetricMatrix(n, w) ==
    Array([i \in Range0(n) |->
        Array([j \in Range0(n) |->
            IF i = j THEN 0 ELSE w[<< Min2(i, j), Max2(i, j) >>]])])

WeightMatrices ==
    UNION {{SymmetricMatrix(n, w) : w \in [PairsOf(n) -> 0..MaxWeight]} :
           n \in 1..MaxPrimN}

InitDensity ==
    /\ density \in {[stage |-> "prim", M |-> m, n_points |-> Cardinality(DOMAIN m),
                     mst_edges |-> << >>, ct |-> << >>, ex |-> << >>,
                     labels |-> << >>] :
                    m \in WeightMatrices}
    /\ data = << >>
    /\ args \in {a \in HdbscanArgs : a.min_cluster_size >= 2 /\ a.min_samples = None}
    /\ pc = "density"
    /\ pos_indices = << >>
    /\ neg_indices = << >>
    /\ pos_clusters = << >>
    /\ pos_k = -1
    /\ neg_clusters = << >>
    /\ neg_k = -1
    /\ all_clusters = << >>
    /\ cluster_offset = 0
    /\ total_clusters = -1
    /\ ret = [labels |-> << >>, k |-> -1]
    /\ frames = << >>
    /\ union_find = << >>

\* mst_edges = minimum_spanning_tree_prim(mutual_reach)
CallPrim ==
    /\ pc = "density"
    /\ density.stage = "prim"
    /\ density' = [density EXCEPT !.stage = "condense",
                       !.mst_edges = minimum_spanning_tree_prim(density.M)]
    /\ UNCHANGED << union_find, frames, data, args, pc, pos_indices, neg_indices, pos_clusters,
                    pos_k, neg_clusters, neg_k, all_clusters, cluster_offset,
                    total_clusters, ret >>

\* tree, cluster_sizes, cluster_birth, n_clusters = build_condensed_tree(...)
CallCondense ==
    /\ pc = "density"
    /\ density.stage = "condense"
    /\ density' = [density EXCEPT !.stage = "extract",
                       !.ct = build_condensed_tree(density.mst_edges, density.n_points,
                                                   args.min_cluster_size)]
    /\ UNCHANGED << union_find, frames, data, args, pc, pos_indices, neg_indices, pos_clusters,
                    pos_k, neg_clusters, neg_k, all_clusters, cluster_offset,
                    total_clusters, ret >>

\* labels = extract_clusters_eom(...); ex keeps the locals of the call, which
\* has none of them when the tree is empty
CallExtract ==
    /\ pc = "density"
    /\ density.stage = "extract"
    /\ density' = [density EXCEPT !.stage = "done",
                       !.ex = IF density.ct.tree = << >> THEN << >>
                              ELSE ExtractionOf(density.ct.tree, density.ct.cluster_sizes,
                                                density.ct.cluster_birth,
                                                density.n_points,
                                                args.min_cluster_size),
                       !.labels = extract_clusters_eom(density.ct.tree,
                                                       density.ct.cluster_sizes,
                                                       density.ct.cluster_birth,
                                                       density.ct.n_clusters,
                                                       density.n_points,
                                                       args.min_cluster_size)]
    /\ UNCHANGED << union_find, frames, data, args, pc, pos_indices, neg_indices, pos_clusters,
                    pos_k, neg_clusters, neg_k, all_clusters, cluster_offset,
                    total_clusters, ret >>

NextDensity == CallPrim \/ CallCondense \/ CallExtract

SpecDensity == InitDensity /\ [][NextDensity]_vars

-----------------------------------------------------------------------------
(* extract_clusters_eom called on its own, on a condensed tree of the      *)
(* shape build_condensed_tree records (every merge joins two live          *)
(* clusters under the next synthetic id) with the lambda of each merge     *)
(* free                                                                     *)

MaxTreeN == 5
MaxBirth == 3

RECURSIVE MergeChoices(_, _)
\* the ways to merge the live clusters down to one: sequences of merges
\* [a, b, lambda_val], the k-th of which creates the id next + k - 1
MergeChoices(live, next) ==
    IF Cardinality(live) <= 1 THEN {<< >>}
    ELSE UNION {{<< [a |-> t[1], b |-> t[2], lambda_val |-> t[3]] >> \o rest :
                    rest \in MergeChoices((live \ {t[1], t[2]}) \cup {next}, next + 1)} :
                t \in {u \in live \X live \X (1..MaxBirth) : u[1] < u[2]}}

RECURSIVE TreeFrom(_, _, _, _)
\* the tree, cluster_sizes and cluster_birth recorded for the merges from
\* position k on
TreeFrom(merges, n, k, acc) ==
    IF k > Len(merges) THEN acc
    ELSE TreeFrom(merges, n, k + 1,
            [tree |-> acc.tree \o
                << [parent |-> n + k - 1, child |-> merges[k].a,
                    child_size |-> acc.cluster_sizes[merges[k].a],
                    lambda_val |-> merges[k].lambda_val],
                   [parent |-> n + k - 1, child |-> merges[k].b,
                    child_size |-> acc.cluster_sizes[merges[k].b],
                    lambda_val |-> merges[k].lambda_val] >>,
             cluster_sizes |-> DictSet(acc.cluster_sizes, n + k - 1,
                                       acc.cluster_sizes[merges[k].a]
                                           + acc.cluster_sizes[merges[k].b]),
             cluster_birth |-> DictSet(acc.cluster_birth, n + k - 1,
                                       merges[k].lambda_val),
             n_clusters |-> k])

CondensedTrees(n) ==
    {TreeFrom(merges, n, 1,
              [tree |-> << >>,
               cluster_sizes |-> Array([i \in Range0(n) |-> 1]),
               cluster_birth |-> Array([i \in Range0(n) |-> 0]),
               n_clusters |-> 0]) :
         merges \in MergeChoices(Range0(n), n)}

InitExtract ==
    /\ density \in UNION {{[stage |-> "extract", M |-> << >>, n_points |-> n,
                             mst_edges |-> << >>, ct |-> ct, ex |-> << >>,
                             labels |-> << >>] : ct \in CondensedTrees(n)} :
                           n \in 2..MaxTreeN}
    /\ data = << >>
    /\ args \in {a \in HdbscanArgs : a.min_cluster_size >= 2 /\ a.min_samples = None}
    /\ pc = "density"
    /\ pos_indices = << >>
    /\ neg_indices = << >>
    /\ pos_clusters = << >>
    /\ pos_k = -1
    /\ neg_clusters = << >>
    /\ neg_k = -1
    /\ all_clusters = << >>
    /\ cluster_offset = 0
    /\ total_clusters = -1
    /\ ret = [labels |-> << >>, k |-> -1]
    /\ frames = << >>
    /\ union_find = << >>

NextExtract == CallExtract

SpecExtract == InitExtract /\ [][NextExtract]_vars

-----------------------------------------------------------------------------
(* A UnionFind object under any sequence of calls of find, union and       *)
(* get_size                                                                 *)

MaxUF == 5

InitUnionFind ==
    /\ union_find \in {[obj |-> UFInit(n),
                        call |-> [op |-> "init", x |-> 0, y |-> 0, result |-> 0],
                        before |-> UFInit(n)] : n \in 1..MaxUF}
    /\ pc = "unionfind"
    /\ data = << >>
    /\ args \in {a \in HdbscanArgs : a.min_cluster_size = 2 /\ a.min_samples = None}
    /\ pos_indices = << >>
    /\ neg_indices = << >>
    /\ pos_clusters = << >>
    /\ pos_k = -1
    /\ neg_clusters = << >>
    /\ neg_k = -1
    /\ all_clusters = << >>
    /\ cluster_offset = 0
    /\ total_clusters = -1
    /\ ret = [labels |-> << >>, k |-> -1]
    /\ frames = << >>
    /\ density = << >>

\* uf.find(x)
CallFind ==
    /\ pc = "unionfind"
    /\ \E x \in DOMAIN union_find.obj.parent :
           LET done(f) == [obj |-> f.uf,
                           call |-> [op |-> "find", x |-> x, y |-> x, result |-> f.root],
                           before |-> union_find.obj]
           IN  union_find' = done(UFFind(union_find.obj, x))
    /\ UNCHANGED << frames, density, data, args, pc, pos_indices, neg_indices,
                    pos_clusters, pos_k, neg_clusters, neg_k, all_clusters,
                    cluster_offset, total_clusters, ret >>

\* uf.union(x, y)
CallUnion ==
    /\ pc = "unionfind"
    /\ \E x, y \in DOMAIN union_find.obj.parent :
           LET done(r) == [obj |-> r.uf,
                           call |-> [op |-> "union", x |-> x, y |-> y,
                                     result |-> r.merged],
                           before |-> union_find.obj]
           IN  union_find' = done(UFUnion(union_find.obj, x, y))
    /\ UNCHANGED << frames, density, data, args, pc, pos_indices, neg_indices,
                    pos_clusters, pos_k, neg_clusters, neg_k, all_clusters,
                    cluster_offset, total_clusters, ret >>

\* uf.get_size(x)
CallGetSize ==
    /\ pc = "unionfind"
    /\ \E x \in DOMAIN union_find.obj.parent :
           LET done(r) == [obj |-> r.uf,
                           call |-> [op |-> "get_size", x |-> x, y |-> x,
                                     result |-> r.size],
                           before |-> union_find.obj]
           IN  union_find' = done(UFGetSize(union_find.obj, x))
    /\ UNCHANGED << frames, density, data, args, pc, pos_indices, neg_indices,
                    pos_clusters, pos_k, neg_clusters, neg_k, all_clusters,
                    cluster_offset, total_clusters, ret >>

NextUnionFind == CallFind \/ CallUnion \/ CallGetSize

SpecUnionFind == InitUnionFind /\ [][NextUnionFind]_vars

-----------------------------------------------------------------------------
(* Properties of the spanning tree *)

\* the number of ends the edges at the positions S have at vertex x
EdgeDegree(edges, S, x) ==
    Cardinality({i \in S : edges[i].u = x}) + Cardinality({i \in S : edges[i].v = x})

\* no cycle: every non-empty choice of edges has a vertex where exactly one
\* of its edges ends
Acyclic(edges, n) ==
    \A S \in SUBSET DOMAIN edges :
        S # {} => \E x \in Range0(n) : EdgeDegree(edges, S, x) = 1

\* every split of the n points in two non-empty parts is crossed by an edge
Connects(pairs, n) ==
    \A A \in SUBSET Range0(n) :
        (A # {} /\ A # Range0(n)) =>
            \E p \in pairs : (p[1] \in A) # (p[2] \in A)

EdgePairs(edges) == {<< edges[i].u, edges[i].v >> : i \in DOMAIN edges}

\* C15: on every symmetric finite matrix over n >= 1 points,
\* minimum_spanning_tree_prim returns exactly n - 1 edges between points of
\* the matrix, without a cycle, connecting all n points, and the weight of
\* each edge (u, v, w) is the matrix entry M[u][v]
C15_SpanningTree ==
    (pc = "density" /\ density.stage # "prim") =>
        LET n == Cardinality(DOMAIN density.M)
            edges == density.mst_edges
        IN  /\ Len(edges) = n - 1
            /\ \A i \in DOMAIN edges :
                   /\ edges[i].u \in Range0(n)
                   /\ edges[i].v \in Range0(n)
                   /\ edges[i].w = density.M[edges[i].u][edges[i].v]
            /\ Acyclic(edges, n)
            /\ Connects(EdgePairs(edges), n)

\* minimum_spanning_tree_prim has returned the tree of a 4 x 4 matrix with
\* three different weights, and the tree is not the star around point 0
C15_Witness ==
    /\ pc = "density"
    /\ density.stage = "condense"
    /\ Cardinality(DOMAIN density.M) = 4
    /\ Cardinality({density.M[p[1]][p[2]] : p \in PairsOf(4)}) = 3
    /\ \E i \in DOMAIN density.mst_edges : density.mst_edges[i].u # 0

\* the spanning trees of the complete graph on n points, as sets of pairs
SpanningTrees(n) ==
    {T \in SUBSET PairsOf(n) : Cardinality(T) = n - 1 /\ Connects(T, n)}

RECURSIVE TotalWeight(_, _)
\* the sum of the entries of M at the pairs of T
TotalWeight(M, T) ==
    IF T = {} THEN 0
    ELSE LET p == CHOOSE q \in T : TRUE
         IN  M[p[1]][p[2]] + TotalWeight(M, T \ {p})

RECURSIVE EdgeWeight(_, _)
\* the sum of the weights of the edges from position i on
EdgeWeight(edges, i) ==
    IF i > Len(edges) THEN 0 ELSE edges[i].w + EdgeWeight(edges, i + 1)

\* C16: on every symmetric non-negative matrix, equal weights included, the
\* total weight of the edges minimum_spanning_tree_prim returns is the least
\* total weight a spanning tree of the matrix has
C16_MinimumWeight ==
    (pc = "density" /\ density.stage # "prim") =>
        LET n == Cardinality(DOMAIN density.M)
        IN  \A T \in SpanningTrees(n) :
                EdgeWeight(density.mst_edges, 1) <= TotalWeight(density.M, T)

\* the tree of a 4 x 4 matrix in which two pairs have the same weight and
\* some spanning tree is heavier than another
C16_Witness ==
    /\ pc = "density"
    /\ density.stage = "condense"
    /\ Cardinality(DOMAIN density.M) = 4
    /\ \E p, q \in PairsOf(4) : p # q /\ density.M[p[1]][p[2]] = density.M[q[1]][q[2]]
    /\ \E T \in SpanningTrees(4) :
           TotalWeight(density.M, T) > EdgeWeight(density.mst_edges, 1)
    /\ \E T \in SpanningTrees(4) :
           /\ TotalWeight(density.M, T) = EdgeWeight(density.mst_edges, 1)
           /\ T # {<< Min2(p[1], p[2]), Max2(p[1], p[2]) >> :
                      p \in EdgePairs(density.mst_edges)}

-----------------------------------------------------------------------------
(* Properties of the condensed tree *)

\* C17: given the n - 1 edges of the spanning tree, build_condensed_tree
\* performs exactly n - 1 merges; the k-th merge allocates the id n + k - 1,
\* so the ids n..2n-2 are allocated once each, and records exactly two
\* entries whose parent is that id, 2(n - 1) entries in all; every point and
\* every synthetic id but the root 2n - 2 is the child of exactly one entry,
\* and the root is the child of none
C17_MergeCount ==
    (pc = "density" /\ density.stage \in {"extract", "done"}) =>
        LET n == Cardinality(DOMAIN density.M)
            tree == density.ct.tree
            asChild(c) == {i \in DOMAIN tree : tree[i].child = c}
            asParent(c) == {i \in DOMAIN tree : tree[i].parent = c}
        IN  /\ density.ct.n_clusters = n - 1
            /\ Len(tree) = 2 * (n - 1)
            /\ \A k \in 1..(n - 1) : asParent(n + k - 1) = {2 * k - 1, 2 * k}
            /\ \A c \in 0..(2 * n - 3) : Cardinality(asChild(c)) = 1
            /\ asChild(2 * n - 2) = {}
            /\ \A i \in DOMAIN tree : tree[i].child \in 0..(2 * n - 3)

\* the tree of four points in which two synthetic clusters merge into the root
C17_Witness ==
    /\ pc = "density"
    /\ density.stage = "extract"
    /\ Cardinality(DOMAIN density.M) = 4
    /\ \A i \in DOMAIN density.ct.tree :
           density.ct.tree[i].parent = 6 => density.ct.tree[i].child >= 4

-----------------------------------------------------------------------------
(* Properties of the extraction *)

\* C18: on n >= 3 points, whatever the coordinates, min_cluster_size and
\* min_samples, hdbscan_clustering returns the label 0 for every point and
\* the count 1
C18_AlwaysOneCluster ==
    (pc = "returned" /\ args.method = "hdbscan" /\ Len(data) >= 3) =>
        /\ DOMAIN ret.labels = Range0(Len(data))
        /\ \A i \in DOMAIN ret.labels : ret.labels[i] = 0
        /\ ret.k = 1

\* hdbscan_clustering has returned on five points that lie in two separate
\* places of the plane, two or more of them in each, with min_cluster_size 2
C18_Witness ==
    /\ pc = "returned"
    /\ args.method = "hdbscan"
    /\ args.min_cluster_size = 2
    /\ Len(data) = 5
    /\ \E p, q \in {data[i] : i \in DOMAIN data} :
           /\ p # q
           /\ \A i \in DOMAIN data : data[i] \in {p, q}
           /\ Cardinality({i \in DOMAIN data : data[i] = p}) >= 2
           /\ Cardinality({i \in DOMAIN data : data[i] = q}) >= 2

\* the synthetic clusters of the extraction ex on n points
Synthetic(ex, n) == {c \in ex.all_clusters : c >= n}

\* death of the stability loop: cluster_lambda_max.get(cluster, birth)
DeathOf(ex, ct, c) == DictGet(ex.cluster_lambda_max, c, DictGet(ct.cluster_birth, c, 0))

\* C19: in extract_clusters_eom the death lambda of a synthetic cluster is
\* never greater than its birth lambda, so its stability is never positive:
\* it is zero or negative, or undefined when birth and death are both +inf;
\* select_clusters returns 0 for every node and selected_clusters stays
\* empty, so every label is 0
C19_NoPositiveStability ==
    (pc = "density" /\ density.stage = "done" /\ density.ex # << >>) =>
        LET n == Cardinality(DOMAIN density.M)
            ex == density.ex
            ct == density.ct
        IN  /\ \A c \in Synthetic(ex, n) :
                   /\ ~FGt(DeathOf(ex, ct, c), ct.cluster_birth[c])
                   /\ ~FGt(ex.cluster_stability[c], 0)
                   /\ ex.cluster_stability[c] = NaN =>
                          (ct.cluster_birth[c] = PInf /\ DeathOf(ex, ct, c) = PInf)
                   /\ ex.cluster_stability[c] # NaN =>
                          FLt(ex.cluster_stability[c], 0) \/ ex.cluster_stability[c] = 0
            /\ DOMAIN ex.returned = ex.all_clusters
            /\ \A c \in ex.all_clusters : ex.returned[c] = 0
            /\ ex.selected_clusters = {}
            /\ \A p \in Range0(n) : density.labels[p] = 0

\* the extraction on four points has met a cluster of negative stability, a
\* cluster of undefined stability and a cluster of stability 0
C19_Witness ==
    /\ pc = "density"
    /\ density.stage = "done"
    /\ Cardinality(DOMAIN density.M) = 4
    /\ \E c \in Synthetic(density.ex, 4) : FLt(density.ex.cluster_stability[c], 0)
    /\ \E c \in Synthetic(density.ex, 4) : density.ex.cluster_stability[c] = NaN
    /\ \E c \in Synthetic(density.ex, 4) : density.ex.cluster_stability[c] = 0

\* the greatest of a non-empty set of lambdas
MaxLambda(S) == CHOOSE x \in S : \A y \in S : ~FGt(y, x)

\* the maximum lambda recorded for the children of the synthetic cluster c
ChildrenLambda(ex, c) ==
    MaxLambda({ex.cluster_lambda_max[ex.cluster_children[c][k]] :
                   k \in DOMAIN ex.cluster_children[c]})

\* C20: the stability of every synthetic cluster c is
\* (death_lambda - birth_lambda) * size(c), with birth_lambda the lambda of
\* the merge that created c and death_lambda the maximum lambda recorded for
\* the children of c, the lambda at which they departed from c; the stability
\* of every original point is 0
C20_StabilityFormula ==
    (pc = "density" /\ density.stage = "done" /\ density.ex # << >>) =>
        LET n == Cardinality(DOMAIN density.M)
            ex == density.ex
            ct == density.ct
        IN  /\ \A c \in Synthetic(ex, n) :
                   ex.cluster_stability[c] =
                       FMulInt(FSub(ChildrenLambda(ex, c), ct.cluster_birth[c]),
                               ct.cluster_sizes[c])
            /\ \A p \in Range0(n) : ex.cluster_stability[p] = 0

-----------------------------------------------------------------------------
(* Properties of the selection and of the labels *)

\* the points of cluster c in the extraction ex
PointsOf(ex, n, c) == Descendants(ex.cluster_children, c) \cap Range0(n)

RECURSIVE BestOf(_, _)
RECURSIVE SumBest(_, _, _)
\* the sum of the recursively selected stabilities of the clusters kids[i..]
SumBest(ex, kids, i) ==
    IF i > Len(kids) THEN 0 ELSE FAdd(BestOf(ex, kids[i]), SumBest(ex, kids, i + 1))

\* the recursively selected stability of cluster c: its own stability when it
\* has no children or beats the sum over its children, that sum otherwise
BestOf(ex, c) ==
    IF c \notin DOMAIN ex.cluster_children THEN ex.cluster_stability[c]
    ELSE IF FGt(ex.cluster_stability[c], SumBest(ex, ex.cluster_children[c], 1))
         THEN ex.cluster_stability[c]
         ELSE SumBest(ex, ex.cluster_children[c], 1)

\* cluster c has children, beats the sum of their selected stabilities and
\* has at least min_cluster_size points
Wins(ex, ct, mcs, c) ==
    /\ c \in DOMAIN ex.cluster_children
    /\ FGt(ex.cluster_stability[c], SumBest(ex, ex.cluster_children[c], 1))
    /\ ct.cluster_sizes[c] >= mcs

\* C22: a cluster is in the final selected set only if its own stability is
\* strictly greater than the sum of the recursively selected stabilities of
\* its children and its size is at least min_cluster_size; a cluster whose
\* own stability equals that sum is not selected, passes the sum upward, and
\* the selections of its children are kept
C22_StrictlyGreater ==
    (pc = "density" /\ density.stage = "done" /\ density.ex # << >>) =>
        LET ex == density.ex
            ct == density.ct
            mcs == args.min_cluster_size
        IN  /\ \A c \in ex.selected_clusters : Wins(ex, ct, mcs, c)
            /\ \A c \in DOMAIN ex.cluster_children :
                   ex.cluster_stability[c] = SumBest(ex, ex.cluster_children[c], 1) =>
                       /\ c \notin ex.selected_clusters
                       /\ ex.returned[c] = SumBest(ex, ex.cluster_children[c], 1)
                       /\ \A k \in DOMAIN ex.cluster_children[c] :
                              Wins(ex, ct, mcs, ex.cluster_children[c][k]) =>
                                  ex.cluster_children[c][k] \in ex.selected_clusters

\* a cluster whose stability is positive and equal to the sum passed up by
\* its two children, both of them selected
C22_Witness ==
    /\ pc = "density"
    /\ density.stage = "done"
    /\ density.ex # << >>
    /\ \E c \in DOMAIN density.ex.cluster_children :
           /\ FGt(density.ex.cluster_stability[c], 0)
           /\ density.ex.cluster_stability[c] =
                  SumBest(density.ex, density.ex.cluster_children[c], 1)
           /\ \A k \in DOMAIN density.ex.cluster_children[c] :
                  density.ex.cluster_children[c][k] \in density.ex.selected_clusters

\* the selected clusters of the extraction ex that contain point p
Covering(ex, n, p) == {c \in ex.selected_clusters : p \in PointsOf(ex, n, c)}

\* C23: the selected clusters in ascending order of id define the labels
\* 0..k-1; a point gets the label of the selected cluster of lowest id that
\* contains it, and a point no selected cluster contains gets label 0, the
\* label of the first selected cluster
C23_LowestSelectedCluster ==
    (pc = "density" /\ density.stage = "done" /\ density.ex # << >>) =>
        /\ DOMAIN density.labels = Range0(density.n_points)
        /\ \A p \in Range0(density.n_points) :
               LET cover == Covering(density.ex, density.n_points, p)
               IN  density.labels[p] =
                       IF cover = {} THEN 0
                       ELSE Cardinality({s \in density.ex.selected_clusters :
                                            \A c \in cover : s < c})

\* two or more clusters are selected, one point lies in two of them, one
\* point lies in none, and one point has the label 1
C23_Witness ==
    /\ pc = "density"
    /\ density.stage = "done"
    /\ density.ex # << >>
    /\ Cardinality(density.ex.selected_clusters) >= 2
    /\ \E p \in Range0(density.n_points) :
           Cardinality(Covering(density.ex, density.n_points, p)) = 2
    /\ \E p \in Range0(density.n_points) :
           Covering(density.ex, density.n_points, p) = {}
    /\ \E p \in Range0(density.n_points) : density.labels[p] = 1

-----------------------------------------------------------------------------
(* Properties of the elbow *)

\* the WSS curve of the merge tree Z of d: the WSS of the cut at k for
\* k = 1..min(max_k, n)
WssCurve(d, Z, max_k) == [k \in 1..Min2(max_k, Len(d)) |-> WssAt(d, Z, k)]

\* C24: the WSS curve the elbow selection uses is the curve of the merge
\* tree built with the caller's linkage criterion, the tree that is
\* afterwards cut at k* to give the labels
C24_ElbowUsesChosenLinkage ==
    (pc = "returned" /\ args.method = "hierarchical" /\ Len(data) > 3) =>
        WssCurve(data, linkage(data, ElbowLinkage), args.max_k)
            = WssCurve(data, linkage(data, args.linkage), args.max_k)

\* the angle change at the interior point k of the WSS curve w:
\* abs(arctan2(w[k-1] - w[k], 1) - arctan2(w[k] - w[k+1], 1))
AngleAt(w, k) == AngleKey(w[k - 1] - w[k], w[k] - w[k + 1])

\* C25: for n > 3, find_optimal_k_elbow returns min(2, n) when there are
\* fewer than 3 WSS values; otherwise it returns the k of the first largest
\* angle change among the interior points 2..min(max_k, n)-1 of the WSS
\* curve: no interior point has a larger angle change and every interior
\* point before k has a smaller one, so ties, a flat curve included, give
\* the smallest such k
C25_FirstLargestAngle ==
    (pc = "returned" /\ args.method = "hierarchical" /\ Len(data) > 3) =>
        LET m == Min2(args.max_k, Len(data))
            w == WssCurve(data, linkage(data, ElbowLinkage), args.max_k)
        IN  IF m < 3 THEN ret.k = Min2(2, Len(data))
            ELSE /\ ret.k \in 2..(m - 1)
                 /\ \A j \in 2..(m - 1) : ~AngleLess(AngleAt(w, ret.k), AngleAt(w, j))
                 /\ \A j \in 2..(ret.k - 1) : AngleLess(AngleAt(w, j), AngleAt(w, ret.k))

\* the elbow of a WSS curve of four or more values that is not flat and whose
\* largest angle change is met at two interior points
C25_Witness ==
    /\ pc = "returned"
    /\ args.method = "hierarchical"
    /\ Len(data) > 3
    /\ Min2(args.max_k, Len(data)) >= 4
    /\ LET w == WssCurve(data, linkage(data, ElbowLinkage), args.max_k)
       IN  /\ w[1] # w[2]
           /\ \E j \in (ret.k + 1)..(Min2(args.max_k, Len(data)) - 1) :
                  /\ ~AngleLess(AngleAt(w, j), AngleAt(w, ret.k))
                  /\ ~AngleLess(AngleAt(w, ret.k), AngleAt(w, j))

-----------------------------------------------------------------------------
(* Order of the merges *)

\* the k-th smallest weight of the edges, equal weights counted each
KthWeight(edges, k) ==
    CHOOSE w \in {edges[i].w : i \in DOMAIN edges} :
        /\ Cardinality({i \in DOMAIN edges : edges[i].w < w}) < k
        /\ k <= Cardinality({i \in DOMAIN edges : edges[i].w <= w})

RECURSIVE TreePoints(_, _, _)
\* the points under cluster c of the condensed tree
TreePoints(tree, n, c) ==
    IF c < n THEN {c}
    ELSE UNION {TreePoints(tree, n, tree[i].child) :
                    i \in {j \in DOMAIN tree : tree[j].parent = c}}

\* edge e has one end in the point set A and the other in the point set B
Joins(e, A, B) == (e.u \in A /\ e.v \in B) \/ (e.u \in B /\ e.v \in A)

\* C26: build_condensed_tree processes the edges of the spanning tree in
\* non-decreasing order of weight and every edge triggers a merge: the k-th
\* merge has the lambda of the k-th smallest weight and joins the two
\* clusters holding the ends of an edge of that weight; so the birth lambdas
\* are non-increasing in the synthetic id, and the highest id 2n - 2 is the
\* root, of recorded size n
C26_MergeOrder ==
    (pc = "density" /\ density.stage \in {"extract", "done"} /\ density.M # << >>
        /\ density.n_points >= 2) =>
        LET n == density.n_points
            edges == density.mst_edges
            ct == density.ct
        IN  /\ ct.n_clusters = Len(edges)
            /\ \A k \in 1..(n - 1) :
                   /\ ct.cluster_birth[n + k - 1] = LambdaOf(KthWeight(edges, k))
                   /\ \E i \in DOMAIN edges :
                          /\ edges[i].w = KthWeight(edges, k)
                          /\ Joins(edges[i],
                                   TreePoints(ct.tree, n, ct.tree[2 * k - 1].child),
                                   TreePoints(ct.tree, n, ct.tree[2 * k].child))
            /\ \A c, e \in n..(2 * n - 2) :
                   c < e => ~FGt(ct.cluster_birth[e], ct.cluster_birth[c])
            /\ \A i \in DOMAIN ct.tree :
                   ct.tree[i].parent <= 2 * n - 2 /\ ct.tree[i].child < 2 * n - 2
            /\ ct.cluster_sizes[2 * n - 2] = n
            /\ TreePoints(ct.tree, n, 2 * n - 2) = Range0(n)

\* the condensed tree of four points whose spanning tree has three different
\* weights that minimum_spanning_tree_prim did not return in ascending order
C26_Witness ==
    /\ pc = "density"
    /\ density.stage = "extract"
    /\ density.M # << >>
    /\ density.n_points = 4
    /\ Cardinality({density.mst_edges[i].w : i \in DOMAIN density.mst_edges}) = 3
    /\ \E i, j \in DOMAIN density.mst_edges :
           i < j /\ density.mst_edges[i].w > density.mst_edges[j].w

-----------------------------------------------------------------------------
(* Properties of UnionFind *)

RECURSIVE Ancestor(_, _, _)
\* the element k parent pointers above x
Ancestor(parent, x, k) == IF k = 0 THEN x ELSE Ancestor(parent, parent[x], k - 1)

\* the element reached from x after as many parent pointers as there are
\* elements: the root of x when the pointers form a forest
RootIn(obj, x) == Ancestor(obj.parent, x, Cardinality(DOMAIN obj.parent))

\* the set of x: the elements with the root of x
SetIn(obj, x) == {y \in DOMAIN obj.parent : RootIn(obj, y) = RootIn(obj, x)}

PartitionOf(obj) == {SetIn(obj, x) : x \in DOMAIN obj.parent}

\* C27: after any sequence of union, find and get_size calls on
\* UnionFind(n), the size stored at the root of x is the number of elements
\* of the set of x, for every x, the sizes stored at the roots sum to n, and
\* a call get_size(x) returns the number of elements of the set of x
C27_SizesCountMembers ==
    pc = "unionfind" =>
        LET obj == union_find.obj
            call == union_find.call
        IN  /\ \A x \in DOMAIN obj.parent :
                   obj.size[RootIn(obj, x)] = Cardinality(SetIn(obj, x))
            /\ SumOver(obj.size, {x \in DOMAIN obj.parent : obj.parent[x] = x})
                   = Cardinality(DOMAIN obj.parent)
            /\ call.op = "get_size" =>
                   /\ call.result = Cardinality(SetIn(obj, call.x))
                   /\ call.result = Cardinality(SetIn(union_find.before, call.x))

\* get_size has returned 4 for an element that was two pointers below its
\* root, in an object with a root whose stored size is 4
C27_Witness ==
    /\ pc = "unionfind"
    /\ union_find.call.op = "get_size"
    /\ union_find.call.result = 4
    /\ union_find.before.parent[union_find.before.parent[union_find.call.x]]
           # union_find.before.parent[union_find.call.x]

\* C28: union(x, y) on elements of different sets returns True and merges
\* exactly these two sets: afterwards x and y have the same root and every
\* other set is as before; on elements of one set it returns False and
\* leaves the partition, the size array and the rank array as they were
C28_UnionMerges ==
    (pc = "unionfind" /\ union_find.call.op = "union") =>
        LET obj == union_find.obj
            before == union_find.before
            Sx == SetIn(before, union_find.call.x)
            Sy == SetIn(before, union_find.call.y)
        IN  IF Sx # Sy
            THEN /\ union_find.call.result = TRUE
                 /\ RootIn(obj, union_find.call.x) = RootIn(obj, union_find.call.y)
                 /\ PartitionOf(obj) = (PartitionOf(before) \ {Sx, Sy}) \cup {Sx \cup Sy}
            ELSE /\ union_find.call.result = FALSE
                 /\ PartitionOf(obj) = PartitionOf(before)
                 /\ obj.size = before.size
                 /\ obj.rank = before.rank

\* union has returned True for two elements, neither of them a root, of two
\* sets of two elements
C28_Witness ==
    /\ pc = "unionfind"
    /\ union_find.call.op = "union"
    /\ union_find.call.result = TRUE
    /\ union_find.before.parent[union_find.call.x] # union_find.call.x
    /\ union_find.before.parent[union_find.call.y] # union_find.call.y
    /\ Cardinality(SetIn(union_find.before, union_find.call.x)) = 2
    /\ Cardinality(SetIn(union_find.before, union_find.call.y)) = 2

\* C29: after any sequence of union, find and get_size calls on
\* UnionFind(n), every element that is not a root has a rank strictly below
\* the rank of its parent, so the parent pointers form a forest whose only
\* cycles are the self-loops of the roots: the pointers from any element
\* lead to a root, and a call find(x) returns that root
C29_RankedForest ==
    pc = "unionfind" =>
        LET obj == union_find.obj
            call == union_find.call
        IN  /\ \A x \in DOMAIN obj.parent :
                   /\ obj.parent[x] \in DOMAIN obj.parent
                   /\ obj.parent[x] # x => obj.rank[x] < obj.rank[obj.parent[x]]
                   /\ obj.parent[RootIn(obj, x)] = RootIn(obj, x)
            /\ call.op = "find" =>
                   /\ call.result = RootIn(union_find.before, call.x)
                   /\ obj.parent[call.result] = call.result
                   /\ obj.parent[call.x] = call.result

\* find has returned for an element that was two pointers below its root
C29_Witness ==
    /\ pc = "unionfind"
    /\ union_find.call.op = "find"
    /\ union_find.before.parent[union_find.before.parent[union_find.call.x]]
           # union_find.before.parent[union_find.call.x]
    /\ union_find.obj.parent[union_find.call.x] = union_find.call.result

-----------------------------------------------------------------------------
(* Default of min_samples *)

\* C30: when min_samples is not supplied, hdbscan_clustering takes it from
\* the caller's min_cluster_size before that value is clamped: the effective
\* min_samples is max(1, min(min_cluster_size, n - 1)), the condensed tree
\* and the result are those of the call with that min_samples supplied
C30_DefaultMinSamples ==
    (pc = "returned" /\ args.method = "hdbscan" /\ Len(data) >= 3
        /\ args.min_samples = None) =>
        LET n == Len(data)
            effective == Max2(1, Min2(args.min_cluster_size, n - 1))
        IN  /\ ClampMinSamples(args.min_cluster_size, args.min_samples, n) = effective
            /\ CondensedTreeOf(data, args.min_cluster_size, args.min_samples)
                   = CondensedTreeOf(data, args.min_cluster_size, Some(effective))
            /\ ret = hdbscan_clustering(data, args.min_cluster_size, Some(effective))

\* hdbscan_clustering has returned for five points, not all the same, called
\* with min_cluster_size 3 and no min_samples: the effective min_samples 3 is
\* above the effective min_cluster_size 2
C30_Witness ==
    /\ pc = "returned"
    /\ args.method = "hdbscan"
    /\ args.min_samples = None
    /\ args.min_cluster_size = 3
    /\ Len(data) = 5
    /\ Cardinality({data[i] : i \in DOMAIN data}) >= 3
    /\ ClampMinSamples(args.min_cluster_size, args.min_samples, Len(data))
           > ClampMinClusterSize(args.min_cluster_size, Len(data))

=============================================================================
